---- MODULE Spec2Model ----
(***************************************************************************)
(* Portfolio tracker: the daily snapshot store (services/asset_service.py),*)
(* the parallel price fetch and the price lookups                          *)
(* (services/price_service.py), the quote cache (utils/cache.py), the     *)
(* valuation of the asset classes and the dashboard's figures              *)
(* (routes/dashboard.py), the price update of a user's positions and the   *)
(* price extraction of the adapters.                                       *)
(*                                                                         *)
(* Money amounts are held as integers in units of 1/FundUnit yen, so that  *)
(* the fund formula quantity * price / 10000 is exact.                     *)
(***************************************************************************)
EXTENDS Integers, Sequences, FiniteSets, TLC

\* ---------------------------------------------------------------- bounds
\* Calendar days (JST) the clock runs through: 1..NumDays.
NumDays == 2

\* Positions in one fetch batch: 0..MaxBatch.
MaxBatch == 3
\* Seconds of wall-clock time that pass in one step of the fetch clock.
TickSeconds == 60
\* Every lookup ends (its HTTP requests time out) within this many seconds.
MaxLookupSeconds == 240

\* Positions in one batch handed to the thread pool: 1..PoolBatch.
PoolBatch == 6

\* Seconds of time.time() that pass in one step of the cache clock, and the
\* last instant the cache clock reaches.
CacheTickSeconds == 150
MaxCacheTime == 450

\* Calendar dates on which the dashboard is opened: 1..HistoryDays.
HistoryDays == 4

\* Calendar dates the keep_alive loop of routes/health runs through.
KeepAliveDays == 3

\* Threads that start_thread can create in one run, and pings one thread sends.
KeepAliveThreads == 3
MaxPings == 2

\* Bits in the significand of the floats of the float valuation (a Python
\* float has 53).
MantissaBits == 8

\* ------------------------------------------------------- program constants
\* A retry loop that goes round once more.
max_retries_one_more == 3 + 1
max_retries == 3
retry_delay == 1
FundUnit == 10000
FallbackRate == 150
worker_cap == 5
per_task_timeout == 15
aggregate_timeout == 180
\* SimpleCache(duration=300)
duration == 300

Users == {1, 2}
\* The two callers of record_asset_snapshot: the APScheduler job and the
\* keep-alive thread's daily batch.
Procs == {"scheduler", "batch"}

asset_types ==
    <<"jp_stock", "us_stock", "cash", "gold", "crypto", "investment_trust", "insurance">>
AssetTypes == {asset_types[i] : i \in 1..Len(asset_types)}
\* A list of classes to update that leaves none out.
asset_types_to_update_all == AssetTypes

asset_types_to_update == {"jp_stock", "us_stock", "gold", "crypto", "investment_trust"}

\* Exchange rates get_usd_jpy_rate returns. No position of InitAssets is a
\* foreign equity, so the rate changes no value here and one rate is enough.
UsdJpyRates == {FallbackRate}

\* Python's None (no row, no value).
\* Unit prices a price update can store.
Prices == {1, 2}

None == [none |-> TRUE]

VARIABLES
    clock,          \* datetime.now(jst).date()
    assets,         \* table assets: id -> row
    asset_history,  \* table asset_history: a set of rows
    committed,      \* the (user, date) keys some call has committed
    pc,             \* per caller: where it is in record_asset_snapshot, or how
                    \* its last call ended ("returned", "raised")
    loc,            \* per caller: the locals of record_asset_snapshot
    slept           \* per caller: the time.sleep durations of the current call

snapVars == <<clock, assets, asset_history, committed, pc, loc, slept>>

VARIABLES
    fpc,            \* where fetch_prices_parallel is
    futures,        \* future_to_asset: position id -> the state of its future
    handled,        \* the futures as_completed has yielded
    updated_prices, \* the result list
    now,            \* seconds since as_completed was called
    timed_out       \* the except concurrent.futures.TimeoutError branch was taken

fetchVars == <<fpc, futures, handled, updated_prices, now, timed_out>>

VARIABLES
    pool_n,         \* len(assets) of the batch the executor serves (0: none)
    pool_submitted, \* executor.submit calls made so far
    pool_threads,   \* worker threads the executor has started
    pool_idle,      \* the executor's idle-worker semaphore
    pool_queue,     \* work items waiting in the executor's queue
    pool_running,   \* lookups being executed by a worker thread
    pool_done       \* lookups that have ended

poolVars == <<pool_n, pool_submitted, pool_threads, pool_idle, pool_queue,
              pool_running, pool_done>>

VARIABLES
    cache,          \* SimpleCache.cache: key -> value
    expiry,         \* SimpleCache.expiry: key -> expiry instant
    ctime,          \* time.time(), in seconds
    last_set,       \* per key: the value and call time of the last set since
                    \* the key was last deleted or cleared, or None
    ret,            \* what the last completed operation did and returned
    tpc             \* per worker thread: the cache method it is in, and where

cacheVars == <<cache, expiry, ctime, last_set, ret, tpc>>

VARIABLES
    portfolio,      \* the positions get_dashboard_data has read
    yesterday_data, \* the second most recent snapshot it has read, or None
    dashboard       \* what get_dashboard_data returned

dashVars == <<portfolio, yesterday_data, dashboard>>

VARIABLES
    valued          \* the last valuation made: by which routine, of which
                    \* positions at which rate, and what it computed

valVars == <<valued>>

VARIABLES
    stored,         \* the assets table update_user_prices reads and writes
    upd_ret         \* what the last update_user_prices call did and returned

updVars == <<stored, upd_ret>>

VARIABLES
    http,           \* the adapter's request: not sent, sent, or answered
    looked          \* what the last lookup that went to its source returned

adVars == <<http, looked>>

VARIABLES
    bpc,            \* where the caller of fetch_prices_parallel is
    batch,          \* the positions passed, in request order
    finished,       \* the submitted lookups in the order they completed
    early,          \* the lookups finished when as_completed was called
    results,        \* what each finished lookup returned
    quotes,         \* the quote cache the lookups share
    yielded,        \* the lookups as_completed has yielded, in order
    out             \* updated_prices

batchVars == <<bpc, batch, finished, early, results, quotes, yielded, out>>

VARIABLES
    cpc,            \* where _get_connection_with_retry is
    db_pool,        \* self.pool: not yet made, None, open or closed
    conn_attempt,   \* the loop variable of the retry loop
    conn_log,       \* what each attempt of the call met, in order
    put_closed,     \* the connections handed back with putconn(conn, close=True)
    conn_result     \* the connection returned or the error raised

connVars == <<cpc, db_pool, conn_attempt, conn_log, put_closed, conn_result>>

VARIABLES
    today_date,     \* the calendar date (JST) on which the dashboard is loaded
    history,        \* the user's rows of asset_history
    based           \* what get_dashboard_data took as yesterday_data and returned

baseVars == <<today_date, history, based>>

VARIABLES
    tx_day,         \* the calendar date (JST)
    tx_table,       \* asset_history as committed: what every connection reads
    txn             \* the call of record_asset_snapshot: its position, attempt, open transaction and error log

txVars == <<tx_day, tx_table, txn>>

VARIABLES
    valued_float    \* the positions and rate under valuation, and the per-class values of the two valuations as floats

floatVars == <<valued_float>>

VARIABLES
    job             \* the daily job: which one, its position in the loop over the users, the calls it has made and how it ended

jobVars == <<job>>

VARIABLES
    now_jst,        \* datetime.now(JST): the date and the ten-second slot of the day
    ka,             \* the keep_alive loop of routes/health: its position, last_run_date and current_date
    batches         \* the clock readings at which run_daily_batch was started

loopVars == <<now_jst, ka, batches>>

VARIABLES
    running,        \* KeepAliveManager.running
    ka_thread,      \* KeepAliveManager.thread: the thread started last, or None
    ka_threads,     \* where each keep-alive thread is in keep_alive
    ka_stopped      \* per thread: its number of pings when stop() found it in the loop, or None

aliveVars == <<running, ka_thread, ka_threads, ka_stopped>>

vars == <<snapVars, fetchVars, poolVars, cacheVars, dashVars, valVars, updVars, adVars, batchVars, connVars, baseVars, txVars, floatVars, jobVars, loopVars, aliveVars>>
nonSnapVars == <<fetchVars, poolVars, cacheVars, dashVars, valVars, updVars, adVars, batchVars, connVars, baseVars, txVars, floatVars, jobVars, loopVars, aliveVars>>
nonFetchVars == <<snapVars, poolVars, cacheVars, dashVars, valVars, updVars, adVars, batchVars, connVars, baseVars, txVars, floatVars, jobVars, loopVars, aliveVars>>
nonPoolVars == <<snapVars, fetchVars, cacheVars, dashVars, valVars, updVars, adVars, batchVars, connVars, baseVars, txVars, floatVars, jobVars, loopVars, aliveVars>>
nonCacheVars == <<snapVars, fetchVars, poolVars, dashVars, valVars, updVars, adVars, batchVars, connVars, baseVars, txVars, floatVars, jobVars, loopVars, aliveVars>>
nonDashVars == <<snapVars, fetchVars, poolVars, cacheVars, valVars, updVars, adVars, batchVars, connVars, baseVars, txVars, floatVars, jobVars, loopVars, aliveVars>>
nonValVars == <<snapVars, fetchVars, poolVars, cacheVars, dashVars, updVars, adVars, batchVars, connVars, baseVars, txVars, floatVars, jobVars, loopVars, aliveVars>>
nonUpdVars == <<snapVars, fetchVars, poolVars, cacheVars, dashVars, valVars, adVars, batchVars, connVars, baseVars, txVars, floatVars, jobVars, loopVars, aliveVars>>
nonAdVars == <<snapVars, fetchVars, poolVars, cacheVars, dashVars, valVars, updVars, batchVars, connVars, baseVars, txVars, floatVars, jobVars, loopVars, aliveVars>>
nonBatchVars == <<snapVars, fetchVars, poolVars, cacheVars, dashVars, valVars, updVars, adVars, connVars, baseVars, txVars, floatVars, jobVars, loopVars, aliveVars>>
nonConnVars == <<snapVars, fetchVars, poolVars, cacheVars, dashVars, valVars, updVars, adVars, batchVars, baseVars, txVars, floatVars, jobVars, loopVars, aliveVars>>
nonBaseVars == <<snapVars, fetchVars, poolVars, cacheVars, dashVars, valVars, updVars, adVars, batchVars, connVars, txVars, floatVars, jobVars, loopVars, aliveVars>>
nonTxVars == <<snapVars, fetchVars, poolVars, cacheVars, dashVars, valVars, updVars, adVars, batchVars, connVars, baseVars, floatVars, jobVars, loopVars, aliveVars>>
nonFloatVars == <<snapVars, fetchVars, poolVars, cacheVars, dashVars, valVars, updVars, adVars, batchVars, connVars, baseVars, txVars, jobVars, loopVars, aliveVars>>
nonJobVars == <<snapVars, fetchVars, poolVars, cacheVars, dashVars, valVars, updVars, adVars, batchVars, connVars, baseVars, txVars, floatVars, loopVars, aliveVars>>
nonLoopVars == <<snapVars, fetchVars, poolVars, cacheVars, dashVars, valVars, updVars, adVars, batchVars, connVars, baseVars, txVars, floatVars, jobVars, aliveVars>>
nonAliveVars == <<snapVars, fetchVars, poolVars, cacheVars, dashVars, valVars, updVars, adVars, batchVars, connVars, baseVars, txVars, floatVars, jobVars, loopVars>>

\* ------------------------------------------------------------- valuation
RECURSIVE SumOver(_, _)
SumOver(S, f) ==
    IF S = {} THEN 0
    ELSE LET x == CHOOSE y \in S : TRUE IN f[x] + SumOver(S \ {x}, f)

\* SELECT * FROM assets WHERE user_id = ? AND asset_type = ?
AssetsOf(tbl, user_id, asset_type) ==
    {i \in DOMAIN tbl : tbl[i].user_id = user_id /\ tbl[i].asset_type = asset_type}

\* ClassTotal with the fund total divided by 1000 instead of 10000.
ClassTotalPerThousand(tbl, user_id, asset_type, usd_jpy) ==
    LET ids == {i \in DOMAIN tbl :
                   tbl[i].user_id = user_id /\ tbl[i].asset_type = asset_type}
        qp == [i \in ids |-> tbl[i].quantity * tbl[i].price]
        q  == [i \in ids |-> tbl[i].quantity]
        p  == [i \in ids |-> tbl[i].price]
    IN  IF asset_type = "us_stock" THEN SumOver(ids, qp) * usd_jpy * FundUnit
        ELSE IF asset_type = "investment_trust" THEN SumOver(ids, qp) * 10
        ELSE IF asset_type = "insurance" THEN SumOver(ids, p) * FundUnit
        ELSE IF asset_type = "cash" THEN SumOver(ids, q) * FundUnit
        ELSE SumOver(ids, qp) * FundUnit

\* The per-class total of record_asset_snapshot, in 1/FundUnit yen.
ClassTotal(tbl, user_id, asset_type, usd_jpy) ==
    LET ids == AssetsOf(tbl, user_id, asset_type)
        qp == [i \in ids |-> tbl[i].quantity * tbl[i].price]
        q  == [i \in ids |-> tbl[i].quantity]
        p  == [i \in ids |-> tbl[i].price]
    IN  IF asset_type = "us_stock" THEN SumOver(ids, qp) * usd_jpy * FundUnit
        ELSE IF asset_type = "investment_trust" THEN SumOver(ids, qp)
        ELSE IF asset_type = "insurance" THEN SumOver(ids, p) * FundUnit
        ELSE IF asset_type = "cash" THEN SumOver(ids, q) * FundUnit
        ELSE SumOver(ids, qp) * FundUnit

ComputeValues(tbl, user_id, usd_jpy) ==
    [t \in AssetTypes |-> ClassTotal(tbl, user_id, t, usd_jpy)]

TotalValue(values) == SumOver(AssetTypes, values)

\* ------------------------------------------------------- snapshot store
\* SELECT ... FROM asset_history WHERE user_id = ? AND record_date = ?; fetchone()
RowsAt(hist, user_id, record_date) ==
    {r \in hist : r.user_id = user_id /\ r.record_date = record_date}

FetchOne(hist, user_id, record_date) ==
    IF RowsAt(hist, user_id, record_date) = {} THEN None
    ELSE CHOOSE r \in RowsAt(hist, user_id, record_date) : TRUE

\* PrevValues with 0 for a missing row, as the comment above the branch says.
PrevValuesOrZero(yesterday_record, values) ==
    IF yesterday_record # None THEN yesterday_record.values
    ELSE [t \in AssetTypes |-> 0]

\* PrevValues that takes today's values whether or not there is a row.
PrevValuesToday(yesterday_record, values) == values

\* prev_values / prev_total_value: yesterday's row if there is one, else today's.
PrevValues(yesterday_record, values) ==
    IF yesterday_record # None THEN yesterday_record.values ELSE values

\* PrevTotalValue with 0 for a missing row, as the comment above the branch says.
PrevTotalValueOrZero(yesterday_record, total_value) ==
    IF yesterday_record # None THEN yesterday_record.total_value ELSE 0

PrevTotalValue(yesterday_record, total_value) ==
    IF yesterday_record # None THEN yesterday_record.total_value ELSE total_value

\* The row the INSERT gives: columns <type>_value are values[type], columns
\* prev_<type>_value are prev_values[type].
SnapshotRow(l) ==
    [user_id |-> l.user_id, record_date |-> l.today,
     values |-> l.values, total_value |-> l.total_value,
     prev_values |-> l.prev_values, prev_total_value |-> l.prev_total_value]

\* An INSERT with no conflict clause on a table with no UNIQUE constraint.
InsertOnly(hist, row) == hist \cup {row}

\* An upsert whose DO UPDATE SET lists the current-value columns only.
UpsertCurrentOnly(hist, row) ==
    LET old == RowsAt(hist, row.user_id, row.record_date)
    IN  IF old = {} THEN hist \cup {row}
        ELSE (hist \ old) \cup
             {[r EXCEPT !.values = row.values, !.total_value = row.total_value] : r \in old}

\* A replace that matches on user_id alone.
UpsertWholeUser(hist, row) ==
    {r \in hist : r.user_id # row.user_id} \cup {row}

\* INSERT ... ON CONFLICT (user_id, record_date) DO UPDATE SET <all 16 value
\* columns> = EXCLUDED.<column>   /   INSERT OR REPLACE INTO asset_history
Upsert(hist, row) ==
    (hist \ RowsAt(hist, row.user_id, row.record_date)) \cup {row}

\* ------------------------------------------------------------------ init
NoLocals ==
    [user_id |-> 0, attempt |-> 0, today |-> 0, values |-> None,
     total_value |-> 0, yesterday_record |-> None,
     prev_values |-> None, prev_total_value |-> 0]

InitAssets ==
    (1 :> [user_id |-> 1, asset_type |-> "jp_stock", quantity |-> 2, price |-> 1]) @@
    (2 :> [user_id |-> 1, asset_type |-> "cash", quantity |-> 5, price |-> 0]) @@
    (3 :> [user_id |-> 2, asset_type |-> "insurance", quantity |-> 1, price |-> 7])

SnapInit ==
    /\ clock = 1
    /\ assets = InitAssets
    /\ asset_history = {}
    /\ committed = {}
    /\ pc = [p \in Procs |-> "idle"]
    /\ loc = [p \in Procs |-> NoLocals]
    /\ slept = [p \in Procs |-> <<>>]

\* --------------------------------------------------------------- actions
\* Midnight JST passes.
Tick ==
    /\ clock < NumDays
    /\ clock' = clock + 1
    /\ UNCHANGED <<assets, asset_history, committed, pc, loc, slept>>
    /\ UNCHANGED nonSnapVars

\* UPDATE assets SET price = ?, name = ? WHERE id = ? (update_user_prices).
UpdatePrice(id, price) ==
    /\ assets[id].asset_type \in asset_types_to_update
    /\ assets[id].price # price
    /\ assets' = [assets EXCEPT ![id].price = price]
    /\ UNCHANGED <<clock, asset_history, committed, pc, loc, slept>>
    /\ UNCHANGED nonSnapVars

\* The reads of one attempt, from get_db() to the SELECT of yesterday's row: the
\* date, the rate, the positions and yesterday's row give the attempt's locals.
AttemptLocals(user_id, attempt, usd_jpy) ==
    LET today == clock
        yesterday == today - 1
        values == ComputeValues(assets, user_id, usd_jpy)
        total_value == TotalValue(values)
        yesterday_record == FetchOne(asset_history, user_id, yesterday)
    IN  [user_id |-> user_id, attempt |-> attempt, today |-> today,
         values |-> values, total_value |-> total_value,
         yesterday_record |-> yesterday_record,
         prev_values |-> PrevValues(yesterday_record, values),
         prev_total_value |-> PrevTotalValue(yesterday_record, total_value)]

\* A caller enters record_asset_snapshot(user_id) and attempt 0 does its reads.
Call(p, user_id, usd_jpy) ==
    /\ pc[p] \in {"idle", "returned", "raised"}
    /\ pc' = [pc EXCEPT ![p] = "write"]
    /\ loc' = [loc EXCEPT ![p] = AttemptLocals(user_id, 0, usd_jpy)]
    /\ slept' = [slept EXCEPT ![p] = <<>>]
    /\ UNCHANGED <<clock, assets, asset_history, committed>>
    /\ UNCHANGED nonSnapVars

\* The upsert and conn.commit() of the attempt, then return.
Commit(p) ==
    /\ pc[p] = "write"
    /\ asset_history' = Upsert(asset_history, SnapshotRow(loc[p]))
    /\ committed' = committed \cup {<<loc[p].user_id, loc[p].today>>}
    /\ pc' = [pc EXCEPT ![p] = "returned"]
    /\ loc' = [loc EXCEPT ![p] = NoLocals]
    /\ slept' = [slept EXCEPT ![p] = <<>>]
    /\ UNCHANGED <<clock, assets>>
    /\ UNCHANGED nonSnapVars

\* The attempt raises (no connection, a failed statement, a failed commit) and
\* is not the last: its transaction is rolled back, the call sleeps
\* retry_delay * (attempt + 1) and the next attempt does its reads. (A failure
\* changes nothing the other callers see, so the reads of the next attempt are
\* taken in the same step.)
Retry(p, usd_jpy) ==
    /\ pc[p] = "write"
    /\ loc[p].attempt < max_retries - 1
    /\ slept' = [slept EXCEPT ![p] = Append(@, retry_delay * (loc[p].attempt + 1))]
    /\ loc' = [loc EXCEPT ![p] =
                  AttemptLocals(loc[p].user_id, loc[p].attempt + 1, usd_jpy)]
    /\ UNCHANGED <<clock, assets, asset_history, committed, pc>>
    /\ UNCHANGED nonSnapVars

\* The last attempt raises: the error goes to the caller.
Raise(p) ==
    /\ pc[p] = "write"
    /\ ~(loc[p].attempt < max_retries - 1)
    /\ pc' = [pc EXCEPT ![p] = "raised"]
    /\ loc' = [loc EXCEPT ![p] = NoLocals]
    /\ slept' = [slept EXCEPT ![p] = <<>>]
    /\ UNCHANGED <<clock, assets, asset_history, committed>>
    /\ UNCHANGED nonSnapVars

SnapNext ==
    \/ Tick
    \/ \E id \in DOMAIN assets, price \in Prices : UpdatePrice(id, price)
    \/ \E p \in Procs, user_id \in Users, usd_jpy \in UsdJpyRates :
          Call(p, user_id, usd_jpy)
    \/ \E p \in Procs : Commit(p)
    \/ \E p \in Procs, usd_jpy \in UsdJpyRates : Retry(p, usd_jpy)
    \/ \E p \in Procs : Raise(p)

\* ===================================================== fetch coordinator
Min(a, b) == IF a < b THEN a ELSE b

\* A pool with one worker per position.
MaxWorkersUncapped(n) == n

\* max_workers = min(5, len(assets))
MaxWorkers(n) == Min(worker_cap, n)

Queued == {f \in DOMAIN futures : futures[f].state = "queued"}
Running == {f \in DOMAIN futures : futures[f].state = "running"}
Done == {f \in DOMAIN futures : futures[f].state = "done"}

\* A filter that lets every finished future into the result list.
AcceptAnything(result) == TRUE

\* if result is not None and isinstance(result, dict)
Accepted(result) == result # None

FetchInit ==
    /\ fpc = "idle"
    /\ futures = <<>>
    /\ handled = {}
    /\ updated_prices = <<>>
    /\ now = 0
    /\ timed_out = FALSE

\* fetch_prices_parallel(assets) with no assets: return [].
FetchEmpty ==
    /\ fpc \in {"idle", "returned"}
    /\ fpc' = "returned"
    /\ futures' = <<>>
    /\ handled' = {}
    /\ updated_prices' = <<>>
    /\ now' = 0
    /\ timed_out' = FALSE
    /\ UNCHANGED nonFetchVars

\* fetch_prices_parallel(assets) with n assets: every lookup is submitted to
\* the pool and as_completed(..., timeout=180) starts its clock.
FetchSubmit(n) ==
    /\ fpc \in {"idle", "returned"}
    /\ n > 0
    /\ fpc' = "iterating"
    /\ futures' = [f \in 1..n |-> [state |-> "queued", result |-> None, ran |-> 0]]
    /\ handled' = {}
    /\ updated_prices' = <<>>
    /\ now' = 0
    /\ timed_out' = FALSE
    /\ UNCHANGED nonFetchVars

\* A free worker thread takes a queued lookup.
StartLookup(f) ==
    /\ f \in Queued
    /\ Cardinality(Running) < MaxWorkers(Len(futures))
    /\ futures' = [futures EXCEPT ![f].state = "running"]
    /\ UNCHANGED <<fpc, handled, updated_prices, now, timed_out>>
    /\ UNCHANGED nonFetchVars

\* fetch_price returns: a quote carrying the position's id, or None (the
\* adapter raised, or the position has no quote). It never raises.
FinishLookup(f, ok) ==
    /\ f \in Running
    /\ futures' = [futures EXCEPT ![f].state = "done",
                                  ![f].result = IF ok THEN [id |-> f] ELSE None]
    /\ UNCHANGED <<fpc, handled, updated_prices, now, timed_out>>
    /\ UNCHANGED nonFetchVars

\* Time passes while lookups run. A free worker takes a queued lookup, and the
\* loop over as_completed takes a finished future, before any time passes; every
\* lookup ends within MaxLookupSeconds.
FetchTick ==
    /\ Running # {}
    /\ fpc = "iterating" => Done \ handled = {}
    /\ Queued = {} \/ Cardinality(Running) = MaxWorkers(Len(futures))
    /\ \A f \in Running : futures[f].ran < MaxLookupSeconds
    /\ now' = now + TickSeconds
    /\ futures' = [f \in DOMAIN futures |->
                      IF f \in Running
                      THEN [futures[f] EXCEPT !.ran = @ + TickSeconds]
                      ELSE futures[f]]
    /\ UNCHANGED <<fpc, handled, updated_prices, timed_out>>
    /\ UNCHANGED nonFetchVars

\* as_completed yields a finished future; future.result(timeout=15) returns at
\* once, the future being finished; an accepted result is appended.
Yield(f) ==
    /\ fpc = "iterating"
    /\ f \in Done \ handled
    /\ handled' = handled \cup {f}
    /\ updated_prices' = IF Accepted(futures[f].result)
                         THEN Append(updated_prices, futures[f].result)
                         ELSE updated_prices
    /\ UNCHANGED <<fpc, futures, now, timed_out>>
    /\ UNCHANGED nonFetchVars

\* as_completed finds its 180 s gone with futures it has not yielded: it raises
\* TimeoutError, which leaves the with block.
AggregateTimeout ==
    /\ fpc = "iterating"
    /\ handled # DOMAIN futures
    /\ now > aggregate_timeout
    /\ fpc' = "shutdown"
    /\ timed_out' = TRUE
    /\ UNCHANGED <<futures, handled, updated_prices, now>>
    /\ UNCHANGED nonFetchVars

\* as_completed is exhausted: the loop ends and the with block is left.
LoopEnd ==
    /\ fpc = "iterating"
    /\ handled = DOMAIN futures
    /\ fpc' = "shutdown"
    /\ UNCHANGED <<futures, handled, updated_prices, now, timed_out>>
    /\ UNCHANGED nonFetchVars

\* ThreadPoolExecutor.__exit__ is shutdown(wait=True): the with block is left
\* only when every submitted lookup has run to its end; then the function
\* returns updated_prices (after the with block, or from the except branch).
FetchReturn ==
    /\ fpc = "shutdown"
    /\ Done = DOMAIN futures
    /\ fpc' = "returned"
    /\ UNCHANGED <<futures, handled, updated_prices, now, timed_out>>
    /\ UNCHANGED nonFetchVars

FetchNext ==
    \/ FetchEmpty
    \/ \E n \in 1..MaxBatch : FetchSubmit(n)
    \/ \E f \in DOMAIN futures : StartLookup(f)
    \/ \E f \in DOMAIN futures, ok \in BOOLEAN : FinishLookup(f, ok)
    \/ FetchTick
    \/ \E f \in DOMAIN futures : Yield(f)
    \/ AggregateTimeout
    \/ LoopEnd
    \/ FetchReturn

\* ============================================================ worker pool
\* The ThreadPoolExecutor of fetch_prices_parallel, by numbers of lookups: the
\* executor starts a worker thread on submit while it has fewer than
\* max_workers and no idle worker; a worker thread executes one lookup at a
\* time, taken from the executor's queue.
PoolInit ==
    /\ pool_n = 0
    /\ pool_submitted = 0
    /\ pool_threads = 0
    /\ pool_idle = 0
    /\ pool_queue = 0
    /\ pool_running = 0
    /\ pool_done = 0

\* fetch_prices_parallel(assets) with n > 0 assets creates the executor.
PoolCall(n) ==
    /\ pool_n = 0
    /\ n > 0
    /\ pool_n' = n
    /\ UNCHANGED <<pool_submitted, pool_threads, pool_idle, pool_queue,
                   pool_running, pool_done>>
    /\ UNCHANGED nonPoolVars

\* executor.submit(self.fetch_price, asset) for the next asset.
PoolSubmit ==
    /\ pool_n > 0
    /\ pool_submitted < pool_n
    /\ pool_submitted' = pool_submitted + 1
    /\ pool_queue' = pool_queue + 1
    /\ IF pool_idle > 0
       THEN pool_idle' = pool_idle - 1 /\ UNCHANGED pool_threads
       ELSE /\ UNCHANGED pool_idle
            /\ pool_threads' = IF pool_threads < MaxWorkers(pool_n)
                               THEN pool_threads + 1
                               ELSE pool_threads
    /\ UNCHANGED <<pool_n, pool_running, pool_done>>
    /\ UNCHANGED nonPoolVars

\* A worker thread that executes nothing takes a lookup from the queue.
PoolTake ==
    /\ pool_queue > 0
    /\ pool_running < pool_threads
    /\ pool_queue' = pool_queue - 1
    /\ pool_running' = pool_running + 1
    /\ UNCHANGED <<pool_n, pool_submitted, pool_threads, pool_idle, pool_done>>
    /\ UNCHANGED nonPoolVars

\* fetch_price returns in a worker thread, which becomes idle.
PoolFinish ==
    /\ pool_running > 0
    /\ pool_running' = pool_running - 1
    /\ pool_done' = pool_done + 1
    /\ pool_idle' = pool_idle + 1
    /\ UNCHANGED <<pool_n, pool_submitted, pool_threads, pool_queue>>
    /\ UNCHANGED nonPoolVars

\* Every lookup has ended: the with block is left and the call returns.
PoolReturn ==
    /\ pool_n > 0
    /\ pool_submitted = pool_n
    /\ pool_done = pool_n
    /\ pool_n' = 0
    /\ pool_submitted' = 0
    /\ pool_threads' = 0
    /\ pool_idle' = 0
    /\ pool_queue' = 0
    /\ pool_running' = 0
    /\ pool_done' = 0
    /\ UNCHANGED nonPoolVars

PoolNext ==
    \/ \E n \in 1..PoolBatch : PoolCall(n)
    \/ PoolSubmit
    \/ PoolTake
    \/ PoolFinish
    \/ PoolReturn

\* ================================================================= cache
\* Python dicts as functions whose domain is the set of keys present.
EmptyDict == [k \in {} |-> None]
DictSet(d, k, v) == [x \in DOMAIN d \cup {k} |-> IF x = k THEN v ELSE d[x]]
DictDel(d, k) == [x \in DOMAIN d \ {k} |-> d[x]]
\* d.get(k, default)
DictGet(d, k, default) == IF k \in DOMAIN d THEN d[k] ELSE default

\* An entry that is still served at its expiry instant.
FreshInclusive(t, exp) == t <= exp

\* time.time() < self.expiry.get(key, 0)
Fresh(t, exp) == t < exp

\* A get that, finding its entry expired, empties the cache.
GetClearing(c, e, t, key) ==
    IF key \in DOMAIN c
    THEN IF Fresh(t, DictGet(e, key, 0))
         THEN [value |-> c[key], cache |-> c, expiry |-> e]
         ELSE [value |-> None, cache |-> EmptyDict, expiry |-> EmptyDict]
    ELSE [value |-> None, cache |-> c, expiry |-> e]

\* SimpleCache.get run as a whole: the value returned and the dicts it leaves.
Get(c, e, t, key) ==
    IF key \in DOMAIN c
    THEN IF Fresh(t, DictGet(e, key, 0))
         THEN [value |-> c[key], cache |-> c, expiry |-> e]
         ELSE [value |-> None, cache |-> DictDel(c, key), expiry |-> DictDel(e, key)]
    ELSE [value |-> None, cache |-> c, expiry |-> e]

\* A set that keeps the expiry instant of an entry it replaces.
SetKeepingExpiry(c, e, t, key, value) ==
    [cache |-> DictSet(c, key, value),
     expiry |-> IF key \in DOMAIN e THEN e ELSE DictSet(e, key, t + duration)]

\* A set that stores nothing.
SetNothing(c, e, t, key, value) == [cache |-> c, expiry |-> e]

\* SimpleCache.set run as a whole.
Set(c, e, t, key, value) ==
    [cache |-> DictSet(c, key, value), expiry |-> DictSet(e, key, t + duration)]

\* SimpleCache.delete run as a whole.
Delete(c, e, key) ==
    IF key \in DOMAIN c
    THEN [cache |-> DictDel(c, key), expiry |-> DictDel(e, key)]
    ELSE [cache |-> c, expiry |-> e]

\* The keys and values of the callers of a SimpleCache.
Keys == {"k1", "k2"}
Values == {[v |-> 1], [v |-> 2]}
Threads == {"w1", "w2"}

CacheInit ==
    /\ cache = EmptyDict
    /\ expiry = EmptyDict
    /\ ctime = 0
    /\ last_set = EmptyDict
    /\ ret = [op |-> "none"]
    /\ tpc = [w \in Threads |-> [op |-> "idle"]]

\* time.time() advances.
CacheTick ==
    /\ ctime + CacheTickSeconds <= MaxCacheTime
    /\ ctime' = ctime + CacheTickSeconds
    /\ UNCHANGED <<cache, expiry, last_set, ret, tpc>>
    /\ UNCHANGED nonCacheVars

CacheGet(key) ==
    LET g == Get(cache, expiry, ctime, key)
    IN  /\ cache' = g.cache
        /\ expiry' = g.expiry
        /\ ret' = [op |-> "get", key |-> key, value |-> g.value, at |-> ctime]
        /\ UNCHANGED <<ctime, last_set, tpc>>
        /\ UNCHANGED nonCacheVars

CacheSet(key, value) ==
    LET s == Set(cache, expiry, ctime, key, value)
    IN  /\ cache' = s.cache
        /\ expiry' = s.expiry
        /\ last_set' = DictSet(last_set, key, [value |-> value, at |-> ctime])
        /\ ret' = [op |-> "set", key |-> key, value |-> value, at |-> ctime]
        /\ UNCHANGED <<ctime, tpc>>
        /\ UNCHANGED nonCacheVars

CacheDelete(key) ==
    LET d == Delete(cache, expiry, key)
    IN  /\ cache' = d.cache
        /\ expiry' = d.expiry
        /\ last_set' = DictDel(last_set, key)
        /\ ret' = [op |-> "delete", key |-> key, value |-> None, at |-> ctime]
        /\ UNCHANGED <<ctime, tpc>>
        /\ UNCHANGED nonCacheVars

CacheClear ==
    /\ cache' = EmptyDict
    /\ expiry' = EmptyDict
    /\ last_set' = EmptyDict
    /\ ret' = [op |-> "clear", key |-> None, value |-> None, at |-> ctime]
    /\ UNCHANGED <<ctime, tpc>>
    /\ UNCHANGED nonCacheVars

CacheNext ==
    \/ CacheTick
    \/ \E key \in Keys : CacheGet(key)
    \/ \E key \in Keys, value \in Values : CacheSet(key, value)
    \/ \E key \in Keys : CacheDelete(key)
    \/ CacheClear

\* ========================================================= price lookups
\* The positions handed to fetch_price; symbols are stored as the user typed
\* them.
QuoteAssets ==
    {[id |-> 1, asset_type |-> "jp_stock", symbol |-> "7203"],
     [id |-> 2, asset_type |-> "crypto", symbol |-> "btc"],
     [id |-> 3, asset_type |-> "crypto", symbol |-> "SHIB"],
     [id |-> 4, asset_type |-> "investment_trust", symbol |-> "FANG+"],
     [id |-> 5, asset_type |-> "investment_trust", symbol |-> "fang+"],
     [id |-> 6, asset_type |-> "cash", symbol |-> "wallet"],
     [id |-> 7, asset_type |-> "insurance", symbol |-> "life"],
     [id |-> 8, asset_type |-> "bond", symbol |-> "JGB"]}

\* str.upper() on the symbols of QuoteAssets.
Upper(symbol) ==
    CASE symbol = "btc" -> "BTC"
      [] symbol = "fang+" -> "FANG+"
      [] OTHER -> symbol

supported_symbols == {"BTC", "ETH", "XRP", "DOGE"}
\* The keys of symbol_map; "ALLCOUNTRY" stands for the fund named in Japanese.
symbol_map == {"S&P500", "ALLCOUNTRY", "FANG+"}

\* f"{asset_type}:{symbol}"; no asset type holds a colon, so the pair
\* determines the string.
CacheKey(asset_type, symbol) == <<asset_type, symbol>>
\* cache_key = "USD_JPY": a key without a colon, kept as a pair like the others.
UsdJpyKey == <<"USD_JPY", "">>

\* The price a source quotes at instant t.
MarketPrice(t) == 1000 + t
\* regularMarketPrice of USDJPY=X at instant t.
MarketRate(t) == 140 + t

\* The display name an adapter returns with the price.
DisplayName(asset_type, symbol) ==
    CASE asset_type = "jp_stock" -> "TOYOTA"
      [] asset_type = "crypto" /\ Upper(symbol) = "BTC" -> "bitcoin"
      [] OTHER -> symbol

\* An allow-list check that compares the symbol as stored.
SupportedAsStored(asset_type, symbol) ==
    /\ asset_type = "crypto" => symbol \in supported_symbols
    /\ asset_type = "investment_trust" => symbol \in symbol_map

\* An adapter without an allow-list.
SupportedAlways(asset_type, symbol) == TRUE

\* _fetch_crypto: symbol.upper() not in supported_symbols raises;
\* _fetch_investment_trust: symbol not in symbol_map raises.
Supported(asset_type, symbol) ==
    /\ asset_type = "crypto" => Upper(symbol) \in supported_symbols
    /\ asset_type = "investment_trust" => symbol \in symbol_map

\* The adapter call of fetch_price: the requests it sends and the (price, name)
\* it returns, None when it raises. net tells whether a request it sends is
\* answered with a usable quote.
Adapter(asset_type, symbol, t, net) ==
    IF asset_type \notin asset_types_to_update \/ ~Supported(asset_type, symbol)
    THEN [requests |-> {}, quote |-> None]
    ELSE [requests |-> {<<asset_type, Upper(symbol)>>},
          quote |-> IF net = "ok"
                    THEN [price |-> MarketPrice(t),
                          name |-> DisplayName(asset_type, symbol)]
                    ELSE None]

\* A lookup that dispatches cash and insurance positions like the others.
SkippedNever(asset_type) == FALSE

\* if asset_type in ['cash', 'insurance']: return None
Skipped(asset_type) == asset_type \in {"cash", "insurance"}

\* A lookup that ignores the cache.
CachedNever(cached) == FALSE

\* if cached:
Cached(cached) == cached # None

\* The entry under key that has not reached its expiry instant, or None.
Unexpired(key) ==
    IF key \in DOMAIN cache /\ key \in DOMAIN expiry /\ ctime < expiry[key]
    THEN cache[key]
    ELSE None

\* fetch_price(asset) run as a whole; it catches every exception.
FetchPrice(asset, net) ==
    LET key == CacheKey(asset.asset_type, asset.symbol)
        g == Get(cache, expiry, ctime, key)
        a == Adapter(asset.asset_type, asset.symbol, ctime, net)
        s == Set(g.cache, g.expiry, ctime, key, a.quote)
        call == [op |-> "fetch_price", asset |-> asset, at |-> ctime,
                 hit |-> Unexpired(key)]
        Quote(q) == [id |-> asset.id, symbol |-> asset.symbol,
                     price |-> q.price, name |-> q.name]
    IN  /\ IF Skipped(asset.asset_type)
           THEN /\ ret' = call @@ [result |-> None, requests |-> {},
                                   slept |-> FALSE, wrote |-> {}]
                /\ UNCHANGED <<cache, expiry, last_set>>
           ELSE IF Cached(g.value)
           THEN /\ ret' = call @@ [result |-> Quote(g.value), requests |-> {},
                                   slept |-> FALSE, wrote |-> {}]
                /\ UNCHANGED <<cache, expiry, last_set>>
           ELSE IF a.quote = None
           THEN /\ ret' = call @@ [result |-> None, requests |-> a.requests,
                                   slept |-> TRUE, wrote |-> {}]
                /\ cache' = g.cache
                /\ expiry' = g.expiry
                /\ UNCHANGED last_set
           ELSE /\ ret' = call @@ [result |-> Quote(a.quote),
                                   requests |-> a.requests,
                                   slept |-> TRUE, wrote |-> {key}]
                /\ cache' = s.cache
                /\ expiry' = s.expiry
                /\ last_set' = DictSet(last_set, key,
                                       [value |-> a.quote, at |-> ctime])
        /\ UNCHANGED <<ctime, tpc>>
        /\ UNCHANGED nonCacheVars

\* get_usd_jpy_rate() run as a whole. net: the request is answered with a
\* rate ("ok"), with a document that holds none ("norate"), or fails ("fail").
GetUsdJpyRate(net) ==
    LET key == UsdJpyKey
        g == Get(cache, expiry, ctime, key)
        rate == MarketRate(ctime)
        s == Set(g.cache, g.expiry, ctime, key, [rate |-> rate])
        call == [op |-> "get_usd_jpy_rate", at |-> ctime, net |-> net,
                 hit |-> Unexpired(key), raised |-> FALSE]
    IN  /\ IF Cached(g.value)
           THEN /\ ret' = call @@ [result |-> g.value.rate, requests |-> {},
                                   fallback |-> FALSE, wrote |-> {}]
                /\ UNCHANGED <<cache, expiry, last_set>>
           ELSE IF net = "ok"
           THEN /\ ret' = call @@ [result |-> rate, requests |-> {key},
                                   fallback |-> FALSE, wrote |-> {key}]
                /\ cache' = s.cache
                /\ expiry' = s.expiry
                /\ last_set' = DictSet(last_set, key,
                                       [value |-> [rate |-> rate], at |-> ctime])
           ELSE /\ ret' = call @@ [result |-> FallbackRate, requests |-> {key},
                                   fallback |-> TRUE, wrote |-> {}]
                /\ cache' = g.cache
                /\ expiry' = g.expiry
                /\ UNCHANGED last_set
        /\ UNCHANGED <<ctime, tpc>>
        /\ UNCHANGED nonCacheVars

QuoteNext ==
    \/ CacheTick
    \/ \E asset \in QuoteAssets, net \in {"ok", "fail"} : FetchPrice(asset, net)
    \/ \E net \in {"ok", "norate", "fail"} : GetUsdJpyRate(net)

\* ================================================= cache, worker threads
\* The worker threads of a batch run fetch_price side by side on the one
\* SimpleCache of the price service; the interpreter can switch threads between
\* any two statements of get and set. A thread's line is the line of cache.py
\* it executes next.
Idle == [op |-> "idle"]

\* What a cache method that has ended did: the value it returned, or KeyError.
Ended(w, value, raised) ==
    [op |-> tpc[w].op, key |-> tpc[w].key, thread |-> w, value |-> value,
     raised |-> raised]

\* A worker thread calls self.cache.get(cache_key) (fetch_price, line 59).
ThreadGet(w, key) ==
    /\ tpc[w] = Idle
    /\ tpc' = [tpc EXCEPT ![w] = [op |-> "get", key |-> key, line |-> 18]]
    /\ UNCHANGED <<cache, expiry, ctime, last_set, ret>>
    /\ UNCHANGED nonCacheVars

\* A worker thread calls self.cache.set(cache_key, quote) (fetch_price, line 98).
ThreadSet(w, key, value) ==
    /\ tpc[w] = Idle
    /\ tpc' = [tpc EXCEPT ![w] = [op |-> "set", key |-> key, value |-> value,
                                  line |-> 29]]
    /\ UNCHANGED <<cache, expiry, ctime, last_set, ret>>
    /\ UNCHANGED nonCacheVars

\* if key in self.cache: ... return None
GetLine18(w) ==
    /\ tpc[w].op = "get" /\ tpc[w].line = 18
    /\ IF tpc[w].key \in DOMAIN cache
       THEN /\ tpc' = [tpc EXCEPT ![w].line = 19]
            /\ UNCHANGED ret
       ELSE /\ tpc' = [tpc EXCEPT ![w] = Idle]
            /\ ret' = Ended(w, None, FALSE)
    /\ UNCHANGED <<cache, expiry, ctime, last_set>>
    /\ UNCHANGED nonCacheVars

\* if time.time() < self.expiry.get(key, 0):
GetLine19(w) ==
    /\ tpc[w].op = "get" /\ tpc[w].line = 19
    /\ tpc' = [tpc EXCEPT ![w].line =
                  IF Fresh(ctime, DictGet(expiry, tpc[w].key, 0)) THEN 20 ELSE 23]
    /\ UNCHANGED <<cache, expiry, ctime, last_set, ret>>
    /\ UNCHANGED nonCacheVars

\* return self.cache[key]
GetLine20(w) ==
    /\ tpc[w].op = "get" /\ tpc[w].line = 20
    /\ ret' = IF tpc[w].key \in DOMAIN cache
              THEN Ended(w, cache[tpc[w].key], FALSE)
              ELSE Ended(w, None, TRUE)
    /\ tpc' = [tpc EXCEPT ![w] = Idle]
    /\ UNCHANGED <<cache, expiry, ctime, last_set>>
    /\ UNCHANGED nonCacheVars

\* del self.cache[key]
GetLine23(w) ==
    /\ tpc[w].op = "get" /\ tpc[w].line = 23
    /\ IF tpc[w].key \in DOMAIN cache
       THEN /\ cache' = DictDel(cache, tpc[w].key)
            /\ tpc' = [tpc EXCEPT ![w].line = 24]
            /\ UNCHANGED ret
       ELSE /\ tpc' = [tpc EXCEPT ![w] = Idle]
            /\ ret' = Ended(w, None, TRUE)
            /\ UNCHANGED cache
    /\ UNCHANGED <<expiry, ctime, last_set>>
    /\ UNCHANGED nonCacheVars

\* del self.expiry[key]; return None
GetLine24(w) ==
    /\ tpc[w].op = "get" /\ tpc[w].line = 24
    /\ IF tpc[w].key \in DOMAIN expiry
       THEN /\ expiry' = DictDel(expiry, tpc[w].key)
            /\ ret' = Ended(w, None, FALSE)
       ELSE /\ ret' = Ended(w, None, TRUE)
            /\ UNCHANGED expiry
    /\ tpc' = [tpc EXCEPT ![w] = Idle]
    /\ UNCHANGED <<cache, ctime, last_set>>
    /\ UNCHANGED nonCacheVars

\* self.cache[key] = value
SetLine29(w) ==
    /\ tpc[w].op = "set" /\ tpc[w].line = 29
    /\ cache' = DictSet(cache, tpc[w].key, tpc[w].value)
    /\ tpc' = [tpc EXCEPT ![w].line = 30]
    /\ UNCHANGED <<expiry, ctime, last_set, ret>>
    /\ UNCHANGED nonCacheVars

\* self.expiry[key] = time.time() + self.duration
SetLine30(w) ==
    /\ tpc[w].op = "set" /\ tpc[w].line = 30
    /\ expiry' = DictSet(expiry, tpc[w].key, ctime + duration)
    /\ last_set' = DictSet(last_set, tpc[w].key,
                           [value |-> tpc[w].value, at |-> ctime])
    /\ ret' = Ended(w, None, FALSE)
    /\ tpc' = [tpc EXCEPT ![w] = Idle]
    /\ UNCHANGED <<cache, ctime>>
    /\ UNCHANGED nonCacheVars

\* The key of a symbol two positions of the batch share, and its quote.
SharedKey == "k1"
SharedQuote == [v |-> 1]

ThreadNext ==
    \/ CacheTick
    \/ \E w \in Threads : ThreadGet(w, SharedKey)
    \/ \E w \in Threads : ThreadSet(w, SharedKey, SharedQuote)
    \/ \E w \in Threads : GetLine18(w)
    \/ \E w \in Threads : GetLine19(w)
    \/ \E w \in Threads : GetLine20(w)
    \/ \E w \in Threads : GetLine23(w)
    \/ \E w \in Threads : GetLine24(w)
    \/ \E w \in Threads : SetLine29(w)
    \/ \E w \in Threads : SetLine30(w)

\* ============================================================= dashboard
\* The positions a user can hold when the dashboard is loaded; quantities and
\* prices in yen (dollars for us_stock), fund prices per 10000 units.
DashPool ==
    {[id |-> 1, asset_type |-> "jp_stock", quantity |-> 2, price |-> 3, avg_cost |-> 2],
     [id |-> 2, asset_type |-> "us_stock", quantity |-> 1, price |-> 2, avg_cost |-> 1],
     [id |-> 3, asset_type |-> "investment_trust", quantity |-> 10000,
      price |-> 2, avg_cost |-> 0],
     [id |-> 4, asset_type |-> "cash", quantity |-> 5, price |-> 0, avg_cost |-> 0]}
DashClasses == {a.asset_type : a \in DashPool}

\* The yen amounts a class holds in the previous snapshot.
PrevYen == {0, 6}

\* The rows asset_history can hold as the second most recent snapshot: its
\* total_value is the sum of its class values, as record_asset_snapshot writes.
SnapshotRecords ==
    {[values |-> v, total_value |-> SumOver(AssetTypes, v)] :
        v \in {w \in [AssetTypes -> {y * FundUnit : y \in PrevYen}] :
                  \A t \in AssetTypes \ DashClasses : w[t] = 0}}

\* A rate in percent is kept as the fraction it is 100 times of: the rate is
\* num / den * 100. 0.0 is ZeroRate.
ZeroRate == [num |-> 0, den |-> 1]
ZeroDivisionError == [error |-> "ZeroDivisionError"]

\* x / y * 100 without the guard.
PercentUnguarded(x, y) ==
    IF y = 0 THEN ZeroDivisionError ELSE [num |-> x, den |-> y]

\* (x / y * 100) if y > 0 else 0.0
Percent(x, y) == IF y > 0 THEN [num |-> x, den |-> y] ELSE ZeroRate

\* assets_by_type[asset_type]
OfType(positions, asset_type) == {a \in positions : a.asset_type = asset_type}

\* calculate_current_value with us_stock left in dollars.
calculate_current_value_in_dollars(assets_, asset_type, usd_jpy) ==
    LET qp == [a \in assets_ |-> a.quantity * a.price]
        q  == [a \in assets_ |-> a.quantity]
        p  == [a \in assets_ |-> a.price]
    IN  IF asset_type = "investment_trust" THEN SumOver(assets_, qp)
        ELSE IF asset_type = "insurance" THEN SumOver(assets_, p) * FundUnit
        ELSE IF asset_type = "cash" THEN SumOver(assets_, q) * FundUnit
        ELSE SumOver(assets_, qp) * FundUnit

\* calculate_current_value, in 1/FundUnit yen.
calculate_current_value(assets_, asset_type, usd_jpy) ==
    LET qp == [a \in assets_ |-> a.quantity * a.price]
        q  == [a \in assets_ |-> a.quantity]
        p  == [a \in assets_ |-> a.price]
    IN  IF asset_type = "us_stock" THEN SumOver(assets_, qp) * usd_jpy * FundUnit
        ELSE IF asset_type = "investment_trust" THEN SumOver(assets_, qp)
        ELSE IF asset_type = "insurance" THEN SumOver(assets_, p) * FundUnit
        ELSE IF asset_type = "cash" THEN SumOver(assets_, q) * FundUnit
        ELSE SumOver(assets_, qp) * FundUnit

\* The cost loop with cash treated as every other class.
cost_value_cash_at_cost(assets_, asset_type, usd_jpy) ==
    LET qc == [a \in assets_ |-> a.quantity * a.avg_cost]
        c  == [a \in assets_ |-> a.avg_cost]
    IN  IF asset_type = "us_stock" THEN SumOver(assets_, qc) * usd_jpy * FundUnit
        ELSE IF asset_type = "investment_trust" THEN SumOver(assets_, qc)
        ELSE IF asset_type = "insurance" THEN SumOver(assets_, c) * FundUnit
        ELSE SumOver(assets_, qc) * FundUnit

\* The cost loop of get_asset_totals, in 1/FundUnit yen.
cost_value(assets_, asset_type, usd_jpy) ==
    LET qc == [a \in assets_ |-> a.quantity * a.avg_cost]
        c  == [a \in assets_ |-> a.avg_cost]
    IN  IF asset_type = "us_stock" THEN SumOver(assets_, qc) * usd_jpy * FundUnit
        ELSE IF asset_type = "investment_trust" THEN SumOver(assets_, qc)
        ELSE IF asset_type = "insurance" THEN SumOver(assets_, c) * FundUnit
        ELSE IF asset_type = "cash" THEN 0
        ELSE SumOver(assets_, qc) * FundUnit

\* calculate_day_change: (day_change, day_change_rate).
calculate_day_change(ydata, current_value, asset_type) ==
    IF ydata = None
    THEN [day_change |-> 0, day_change_rate |-> ZeroRate]
    ELSE LET yesterday_value == ydata.values[asset_type]
             day_change == current_value - yesterday_value
         IN  [day_change |-> day_change,
              day_change_rate |-> Percent(day_change, yesterday_value)]

\* The all-zero result of get_asset_totals; error: the except branch gave it.
ZeroTotals(error) ==
    [total |-> 0, cost |-> 0, profit |-> 0, profit_rate |-> ZeroRate,
     day_change |-> 0, day_change_rate |-> ZeroRate, error |-> error]

\* get_asset_totals: a class with no position gets zeros throughout.
get_asset_totals(ydata, assets_, asset_type, usd_jpy) ==
    IF assets_ = {} THEN ZeroTotals(FALSE)
    ELSE LET total == calculate_current_value(assets_, asset_type, usd_jpy)
             cost == cost_value(assets_, asset_type, usd_jpy)
             profit_rate == Percent(total - cost, cost)
             dc == calculate_day_change(ydata, total, asset_type)
         IN  IF ZeroDivisionError \in {profit_rate, dc.day_change_rate}
             THEN ZeroTotals(TRUE)
             ELSE [total |-> total, cost |-> cost, profit |-> total - cost,
                   profit_rate |-> profit_rate,
                   day_change |-> dc.day_change,
                   day_change_rate |-> dc.day_change_rate, error |-> FALSE]

\* The six classes with cash among them.
NonCashAll == AssetTypes

\* The classes total_cost_excluding_cash and total_value_excluding_cash add up.
NonCash == AssetTypes \ {"cash"}

\* The result of get_dashboard_data: the class statistics and the totals; None
\* when an exception reaches the outer handler.
dashboard_data(positions, ydata, usd_jpy) ==
    LET stats == [t \in AssetTypes |->
                     get_asset_totals(ydata, OfType(positions, t), t, usd_jpy)]
        total_assets == SumOver(AssetTypes, [t \in AssetTypes |-> stats[t].total])
        yesterday_total == IF ydata = None THEN 0 ELSE ydata.total_value
        total_day_change == IF ydata = None THEN 0 ELSE total_assets - yesterday_total
        total_day_change_rate ==
            IF ydata = None THEN ZeroRate
            ELSE Percent(total_day_change, yesterday_total)
        total_cost_excluding_cash ==
            SumOver(NonCash, [t \in NonCash |-> stats[t].cost])
        total_value_excluding_cash ==
            SumOver(NonCash, [t \in NonCash |-> stats[t].total])
        total_profit == total_value_excluding_cash - total_cost_excluding_cash
        total_profit_rate == Percent(total_profit, total_cost_excluding_cash)
    IN  IF ZeroDivisionError \in {total_day_change_rate, total_profit_rate}
        THEN None
        ELSE [stats |-> stats, total_assets |-> total_assets,
              total_profit |-> total_profit,
              total_profit_rate |-> total_profit_rate,
              total_day_change |-> total_day_change,
              total_day_change_rate |-> total_day_change_rate]

\* get_dashboard_data(user_id): reads the user's positions and the two most
\* recent snapshots, then computes.
GetDashboardData(positions, ydata, usd_jpy) ==
    /\ portfolio' = positions
    /\ yesterday_data' = ydata
    /\ dashboard' = dashboard_data(positions, ydata, usd_jpy)
    /\ UNCHANGED nonDashVars

DashNext ==
    \E positions \in SUBSET DashPool, ydata \in SnapshotRecords \cup {None},
       usd_jpy \in UsdJpyRates :
        GetDashboardData(positions, ydata, usd_jpy)

\* ============================================================= valuation
\* The positions of user 1 that the two valuations are applied to: two in
\* us_stock, two in investment_trust, two in cash (price 0 as add_asset stores
\* it, avg_cost as update_asset lets the user set it), one in jp_stock.
ValPool ==
    {[id |-> 1, user_id |-> 1, asset_type |-> "us_stock",
      quantity |-> 1, price |-> 200, avg_cost |-> 150],
     [id |-> 2, user_id |-> 1, asset_type |-> "us_stock",
      quantity |-> 2, price |-> 3, avg_cost |-> 4],
     [id |-> 3, user_id |-> 1, asset_type |-> "investment_trust",
      quantity |-> 100, price |-> 15234, avg_cost |-> 10000],
     [id |-> 4, user_id |-> 1, asset_type |-> "investment_trust",
      quantity |-> 10000, price |-> 2, avg_cost |-> 3],
     [id |-> 5, user_id |-> 1, asset_type |-> "cash",
      quantity |-> 5, price |-> 0, avg_cost |-> 7],
     [id |-> 6, user_id |-> 1, asset_type |-> "cash",
      quantity |-> 3, price |-> 0, avg_cost |-> 0],
     [id |-> 7, user_id |-> 1, asset_type |-> "jp_stock",
      quantity |-> 2, price |-> 3, avg_cost |-> 4]}

\* The yen per dollar the valuations are made at.
ValRates == {140, FallbackRate}

\* The assets table that holds exactly these positions.
TableOf(positions) ==
    [i \in {a.id : a \in positions} |-> CHOOSE a \in positions : a.id = i]

NotValued == [by |-> "none"]

\* The valuation of record_asset_snapshot: values and total_value.
RecordValues(positions, usd_jpy) ==
    /\ valued' =
          [by |-> "record_asset_snapshot", positions |-> positions,
           usd_jpy |-> usd_jpy,
           values |-> ComputeValues(TableOf(positions), 1, usd_jpy),
           total_value |->
               TotalValue(ComputeValues(TableOf(positions), 1, usd_jpy))]
    /\ UNCHANGED nonValVars

\* The valuation of get_dashboard_data, with no previous snapshot.
LiveTotals(positions, usd_jpy) ==
    /\ valued' =
          [by |-> "get_dashboard_data", positions |-> positions,
           usd_jpy |-> usd_jpy,
           data |-> dashboard_data(positions, None, usd_jpy)]
    /\ UNCHANGED nonValVars

ValNext ==
    \/ \E positions \in SUBSET ValPool, usd_jpy \in ValRates :
          RecordValues(positions, usd_jpy)
    \/ \E positions \in SUBSET ValPool, usd_jpy \in ValRates :
          LiveTotals(positions, usd_jpy)

\* ========================================================= price update
\* The assets table before any update: user 1 holds three positions in
\* classes to update and one in cash, user 2 holds cash and insurance only.
\* add_asset stores the symbol as the name when it got no quote.
InitStored ==
    (1 :> [user_id |-> 1, asset_type |-> "jp_stock", symbol |-> "7203",
           name |-> "7203", price |-> 0]) @@
    (2 :> [user_id |-> 1, asset_type |-> "crypto", symbol |-> "BTC",
           name |-> "BTC", price |-> 0]) @@
    (3 :> [user_id |-> 1, asset_type |-> "investment_trust", symbol |-> "FANG+",
           name |-> "FANG+", price |-> 0]) @@
    (4 :> [user_id |-> 1, asset_type |-> "cash", symbol |-> "wallet",
           name |-> "wallet", price |-> 0]) @@
    (5 :> [user_id |-> 2, asset_type |-> "cash", symbol |-> "wallet",
           name |-> "wallet", price |-> 0]) @@
    (6 :> [user_id |-> 2, asset_type |-> "insurance", symbol |-> "life",
           name |-> "life", price |-> 7])

\* SELECT id, symbol, asset_type FROM assets WHERE user_id = ? AND
\* asset_type IN (asset_types_to_update)
AllAssets(tbl, user_id) ==
    {i \in DOMAIN tbl : /\ tbl[i].user_id = user_id
                        /\ tbl[i].asset_type \in asset_types_to_update}

\* What fetch_prices_parallel(all_assets) can return: a quote for each of
\* some of the positions, under the position's id.
QuoteFor(tbl, i) ==
    {[id |-> i, symbol |-> tbl[i].symbol, price |-> p,
      name |-> DisplayName(tbl[i].asset_type, tbl[i].symbol)] : p \in Prices}

UpdatedPrices(tbl, all_assets) ==
    {q \in UNION {[S -> UNION {QuoteFor(tbl, i) : i \in S}] : S \in SUBSET all_assets} :
        \A i \in DOMAIN q : q[i].id = i}

\* An UPDATE that sets the price and leaves the name.
UpdatePricesOnly(tbl, updated) ==
    [i \in DOMAIN tbl |->
        IF i \in DOMAIN updated
        THEN [tbl[i] EXCEPT !.price = updated[i].price]
        ELSE tbl[i]]

\* UPDATE assets SET price = ?, name = ? WHERE id = ?, for every quote.
UpdateAssets(tbl, updated) ==
    [i \in DOMAIN tbl |->
        IF i \in DOMAIN updated
        THEN [tbl[i] EXCEPT !.price = updated[i].price, !.name = updated[i].name]
        ELSE tbl[i]]

\* update_user_prices(user_id) run as a whole. updated: what
\* fetch_prices_parallel returns; db_ok: the UPDATEs and the commit succeed
\* (otherwise the transaction is rolled back and the outer handler returns 0).
UpdateUserPrices(user_id, updated, db_ok) ==
    LET all_assets == AllAssets(stored, user_id)
        call == [op |-> "update_user_prices", user_id |-> user_id,
                 before |-> stored, all_assets |-> all_assets]
    IN  /\ updated \in UpdatedPrices(stored, all_assets)
        /\ IF all_assets = {}
           THEN /\ upd_ret' = call @@ [dispatched |-> {}, updated_prices |-> updated,
                                       wrote |-> FALSE, rolled_back |-> FALSE,
                                       returned |-> 0]
                /\ UNCHANGED stored
           ELSE IF DOMAIN updated = {}
           THEN /\ upd_ret' = call @@ [dispatched |-> all_assets,
                                       updated_prices |-> updated,
                                       wrote |-> FALSE, rolled_back |-> FALSE,
                                       returned |-> 0]
                /\ UNCHANGED stored
           ELSE IF db_ok
           THEN /\ upd_ret' = call @@ [dispatched |-> all_assets,
                                       updated_prices |-> updated,
                                       wrote |-> TRUE, rolled_back |-> FALSE,
                                       returned |-> Cardinality(DOMAIN updated)]
                /\ stored' = UpdateAssets(stored, updated)
           ELSE /\ upd_ret' = call @@ [dispatched |-> all_assets,
                                       updated_prices |-> updated,
                                       wrote |-> FALSE, rolled_back |-> TRUE,
                                       returned |-> 0]
                /\ UNCHANGED stored
        /\ UNCHANGED nonUpdVars

UpdNext ==
    \/ \E user_id \in Users, db_ok \in BOOLEAN :
          \E updated \in UpdatedPrices(stored, AllAssets(stored, user_id)) :
              UpdateUserPrices(user_id, updated, db_ok)
    \/ FetchEmpty

\* ============================================================= adapters
\* Prices in this section are in 1/1000 yen (dollar for us_stock), so that
\* round(price, 2) has something to round.
Milli == 1000

\* round(x, 2) for x >= 0 that is not half-way between two hundredths.
Round2(v) == ((v + 5) \div 10) * 10

\* A number found in a response.
Num(v) == [value |-> v]

\* The number of extraction strategies of an adapter: the six of
\* _fetch_crypto, the four of _fetch_investment_trust; the three meta fields
\* of the chart API; the one GOLD row.
Strategies(asset_type) ==
    CASE asset_type = "crypto" -> 6
      [] asset_type = "investment_trust" -> 4
      [] asset_type \in {"jp_stock", "us_stock"} -> 3
      [] OTHER -> 1

\* A sanity check that lets every number through.
SaneAlways(asset_type, v) == TRUE

\* val > 0 (crypto), 1000 <= price <= 100000 (investment_trust).
Sane(asset_type, v) ==
    IF asset_type = "investment_trust"
    THEN 1000 * Milli <= v /\ v <= 100000 * Milli
    ELSE v > 0

\* The strategies that look at the first match of their pattern only:
\* in _fetch_crypto the snippet after the current-value label (2), the
\* data-price attribute (3) and the scientific notation (6); in
\* _fetch_investment_trust the th/td pair (1). The others go through every
\* match until one passes.
FirstOnly(asset_type, strategy) ==
    \/ asset_type = "crypto" /\ strategy \in {2, 3, 6}
    \/ asset_type = "investment_trust" /\ strategy = 1

\* The matches a strategy checks, in document order.
Inspected(asset_type, strategy, matches) ==
    IF FirstOnly(asset_type, strategy) /\ Len(matches) > 1
    THEN SubSeq(matches, 1, 1)
    ELSE matches

\* The strategy tried last among S.
LastOf(S) == CHOOSE x \in S : \A y \in S : y <= x

\* The strategy tried first among S.
FirstOf(S) == CHOOSE x \in S : \A y \in S : x <= y

\* What one strategy yields: its first checked match that passes, or None.
StrategyYield(asset_type, strategy, matches) ==
    LET seen == Inspected(asset_type, strategy, matches)
        pass == {i \in 1..Len(seen) : Sane(asset_type, seen[i].value)}
    IN  IF pass = {} THEN None ELSE seen[FirstOf(pass)]

\* _fetch_crypto / _fetch_investment_trust on a response body: the rounded
\* value of the first strategy that yields one; None when it raises.
Scrape(asset_type, body) ==
    LET yielding == {k \in DOMAIN body :
                        StrategyYield(asset_type, k, body[k]) # None}
    IN  IF yielding = {} THEN None
        ELSE [price |-> Round2(StrategyYield(asset_type, FirstOf(yielding),
                                             body[FirstOf(yielding)]).value)]

\* _fetch_jp_stock / _fetch_us_stock on the meta of a chart response:
\* regularMarketPrice or previousClose or chartPreviousClose or 0, returned
\* rounded if > 0.
Chart(body) ==
    LET truthy == {k \in DOMAIN body : Len(body[k]) > 0 /\ body[k][1].value # 0}
        price == IF truthy = {} THEN 0 ELSE body[FirstOf(truthy)][1].value
    IN  IF price > 0 THEN [price |-> Round2(price)] ELSE None

\* _fetch_gold_price on the GOLD row: the integer before "yen", as it is.
Gold(body) ==
    IF Len(body[1]) = 0 THEN None ELSE [price |-> body[1][1].value]

Extract(asset_type, body) ==
    CASE asset_type \in {"crypto", "investment_trust"} -> Scrape(asset_type, body)
      [] asset_type \in {"jp_stock", "us_stock"} -> Chart(body)
      [] OTHER -> Gold(body)

\* What one strategy's pattern matches in a response, in document order:
\* nothing; a number that passes the sanity check; one that fails it (0 for
\* crypto, 999 and 100001 for a fund); a failing one before a passing one;
\* for crypto also 0.004 yen, which passes and rounds to 0.00. The passing
\* number tells which strategy found it.
Good(asset_type, strategy) ==
    IF asset_type = "investment_trust" THEN (15000 + strategy) * Milli + 4
    ELSE 100 * strategy * Milli + 6

Shapes(asset_type) ==
    IF asset_type = "investment_trust"
    THEN {"none", "good", "low", "high", "low_good", "high_good"}
    ELSE {"none", "good", "zero", "zero_good", "tiny"}

Matches(asset_type, strategy, shape) ==
    CASE shape = "none" -> <<>>
      [] shape = "good" -> <<Num(Good(asset_type, strategy))>>
      [] shape = "zero" -> <<Num(0)>>
      [] shape = "zero_good" -> <<Num(0), Num(Good(asset_type, strategy))>>
      [] shape = "tiny" -> <<Num(4)>>
      [] shape = "low" -> <<Num(999 * Milli)>>
      [] shape = "high" -> <<Num(100001 * Milli)>>
      [] shape = "low_good" ->
            <<Num(999 * Milli), Num(Good(asset_type, strategy))>>
      [] shape = "high_good" ->
            <<Num(100001 * Milli), Num(Good(asset_type, strategy))>>

\* The field values of the chart API's meta: absent, 0, negative, 0.004,
\* 2600.506.
ChartFields == {<<>>, <<Num(0)>>, <<Num(0 - Milli)>>, <<Num(4)>>, <<Num(2600506)>>}

\* The GOLD row: no "<digits> yen" in it, "0 yen", "15,000 yen".
GoldFields == {<<>>, <<Num(0)>>, <<Num(15000 * Milli)>>}

\* The responses a source can give, as what each strategy finds in them.
Bodies(asset_type) ==
    CASE asset_type \in {"crypto", "investment_trust"} ->
            {[k \in 1..Strategies(asset_type) |-> Matches(asset_type, k, sh[k])] :
                sh \in [1..Strategies(asset_type) -> Shapes(asset_type)]}
      [] asset_type \in {"jp_stock", "us_stock"} -> [1..3 -> ChartFields]
      [] OTHER -> [1..1 -> GoldFields]

\* fetch_price found nothing in the cache and the adapter sends its request.
Request(asset_type) ==
    /\ http.state = "idle"
    /\ http' = [state |-> "sent", asset_type |-> asset_type]
    /\ looked' = [op |-> "none"]
    /\ UNCHANGED nonAdVars

\* The source answers.
Respond(asset_type) ==
    /\ http.state = "sent"
    /\ http.asset_type = asset_type
    /\ \E body \in Bodies(asset_type) :
          http' = [state |-> "received", asset_type |-> asset_type,
                   body |-> body]
    /\ UNCHANGED looked
    /\ UNCHANGED nonAdVars

\* The adapter extracts the price; fetch_price stores what it got in the
\* cache and returns it, or returns None when the adapter raised.
Return ==
    /\ http.state = "received"
    /\ looked' = [op |-> "fetch_price", asset_type |-> http.asset_type,
                  body |-> http.body,
                  quote |-> Extract(http.asset_type, http.body),
                  cached |-> Extract(http.asset_type, http.body)]
    /\ http' = [state |-> "idle"]
    /\ UNCHANGED nonAdVars

AdapterNext ==
    \/ \E asset_type \in asset_types_to_update : Request(asset_type)
    \/ \E asset_type \in asset_types_to_update : Respond(asset_type)
    \/ Return

\* ================================================== results of a batch
\* The positions a batch is drawn from: two of one class and symbol, and a
\* third.
BatchPool ==
    {[id |-> 11, asset_type |-> "jp_stock", symbol |-> "7203"],
     [id |-> 12, asset_type |-> "jp_stock", symbol |-> "7203"],
     [id |-> 13, asset_type |-> "crypto", symbol |-> "BTC"]}

\* The lists of positions with distinct ids.
Batches ==
    {b \in UNION {[1..n -> BatchPool] : n \in 1..Cardinality(BatchPool)} :
        \A i, j \in DOMAIN b : i # j => b[i].id # b[j].id}

\* A result that carries the id add_asset passes (0) whatever the position.
ResultWithoutId(asset, quote) ==
    [id |-> 0, symbol |-> asset.symbol, price |-> quote.price, name |-> quote.name]

\* The dict fetch_price returns, from the cache or from the adapter alike:
\* id and symbol are the asset's, price and name the quote's.
Result(asset, quote) ==
    [id |-> asset.id, symbol |-> asset.symbol,
     price |-> quote.price, name |-> quote.name]

Pending == DOMAIN batch \ {finished[k] : k \in DOMAIN finished}

\* fetch_prices_parallel(assets): the dict comprehension submits every lookup.
BatchSubmit(assets_) ==
    /\ bpc \in {"idle", "returned"}
    /\ bpc' = "submitted"
    /\ batch' = assets_
    /\ finished' = <<>>
    /\ early' = {}
    /\ results' = [i \in DOMAIN assets_ |-> None]
    /\ yielded' = <<>>
    /\ out' = <<>>
    /\ UNCHANGED quotes
    /\ UNCHANGED nonBatchVars

\* A lookup runs to its end in a worker thread: a cached quote is returned
\* under the asset's id; otherwise the adapter's quote is stored and
\* returned, or None when the adapter raised.
BatchLookup(i, net) ==
    LET key == CacheKey(batch[i].asset_type, batch[i].symbol)
        quote == [price |-> MarketPrice(0),
                  name |-> DisplayName(batch[i].asset_type, batch[i].symbol)]
    IN  /\ bpc \in {"submitted", "iterating"}
        /\ i \in Pending
        /\ finished' = Append(finished, i)
        /\ IF key \in DOMAIN quotes
           THEN /\ results' = [results EXCEPT ![i] = Result(batch[i], quotes[key])]
                /\ UNCHANGED quotes
           ELSE IF net = "ok"
           THEN /\ results' = [results EXCEPT ![i] = Result(batch[i], quote)]
                /\ quotes' = DictSet(quotes, key, quote)
           ELSE /\ results' = [results EXCEPT ![i] = None]
                /\ UNCHANGED quotes
        /\ UNCHANGED <<bpc, batch, early, yielded, out>>
        /\ UNCHANGED nonBatchVars

\* concurrent.futures.as_completed(future_to_asset, timeout=180) is called:
\* the futures finished by now are set apart, to be yielded first.
AsCompleted ==
    /\ bpc = "submitted"
    /\ bpc' = "iterating"
    /\ early' = {finished[k] : k \in DOMAIN finished}
    /\ UNCHANGED <<batch, finished, results, quotes, yielded, out>>
    /\ UNCHANGED nonBatchVars

Unyielded == {finished[k] : k \in DOMAIN finished} \ {yielded[k] : k \in DOMAIN yielded}

\* The place of a lookup in the order of completion.
PlaceOf(i) == CHOOSE k \in DOMAIN finished : finished[k] = i

\* The futures as_completed can yield next: any of those that were finished
\* when it was called, in no specified order; after them, the others in the
\* order in which they finish.
NextYield ==
    IF Unyielded \cap early # {} THEN Unyielded \cap early
    ELSE {i \in Unyielded : \A j \in Unyielded : PlaceOf(i) <= PlaceOf(j)}

\* One pass of the loop: result = future.result(timeout=15); a dict is
\* appended to updated_prices.
BatchYield(i) ==
    /\ bpc = "iterating"
    /\ i \in NextYield
    /\ yielded' = Append(yielded, i)
    /\ out' = IF Accepted(results[i]) THEN Append(out, results[i]) ELSE out
    /\ UNCHANGED <<bpc, batch, finished, early, results, quotes>>
    /\ UNCHANGED nonBatchVars

\* Every future has been yielded: the loop ends and updated_prices is returned.
BatchReturn ==
    /\ bpc = "iterating"
    /\ Len(yielded) = Len(batch)
    /\ bpc' = "returned"
    /\ UNCHANGED <<batch, finished, early, results, quotes, yielded, out>>
    /\ UNCHANGED nonBatchVars

BatchNext ==
    \/ \E assets_ \in Batches : BatchSubmit(assets_)
    \/ \E i \in DOMAIN batch, net \in {"ok", "fail"} : BatchLookup(i, net)
    \/ AsCompleted
    \/ \E i \in DOMAIN batch : BatchYield(i)
    \/ BatchReturn

BatchInit ==
    /\ bpc = "idle"
    /\ batch = <<>>
    /\ finished = <<>>
    /\ early = {}
    /\ results = <<>>
    /\ quotes = EmptyDict
    /\ yielded = <<>>
    /\ out = <<>>

\* ================================================== database connection
\* def _get_connection_with_retry(self, max_retries=3)
get_connection_max_retries == 3

\* A liveness test that every connection passes.
test_connection_skipped(conn) == TRUE

\* _test_connection(conn): SELECT 1 succeeds.
test_connection(conn) == conn.alive

\* DatabaseManager.__init__ / _init_pool: the pool is created, or DATABASE_URL
\* is empty and self.pool stays None with use_postgres still set.
NewManager(made) ==
    /\ cpc = "new"
    /\ cpc' = "ready"
    /\ db_pool' = IF made THEN "open" ELSE "none"
    /\ UNCHANGED <<conn_attempt, conn_log, put_closed, conn_result>>
    /\ UNCHANGED nonConnVars

\* get_db calls _get_connection_with_retry().
ConnCall ==
    /\ cpc \in {"ready", "returned", "raised"}
    /\ cpc' = "loop"
    /\ conn_attempt' = 0
    /\ conn_log' = <<>>
    /\ put_closed' = {}
    /\ conn_result' = None
    /\ UNCHANGED db_pool
    /\ UNCHANGED nonConnVars

\* What an attempt can meet: no pool (RuntimeError), getconn raising
\* OperationalError (the server cannot be reached) or PoolError (the pool is
\* closed or exhausted), or a connection that is alive or not.
Meets(pool_) ==
    CASE pool_ = "none" -> {"no_pool"}
      [] pool_ = "closed" -> {"pool_error"}
      [] OTHER -> {"connect_failed", "pool_error", "dead", "alive"}

\* The exceptions of the first except clause.
Operational == {"connect_failed", "dead"}

\* One pass of for attempt in range(max_retries), up to the return or to the
\* end of the except clause without the pool re-initialisation.
Attempt(met) ==
    LET conn == [serial |-> conn_attempt + 1, alive |-> met = "alive"]
        got == met \in {"dead", "alive"}
        last == ~(conn_attempt < get_connection_max_retries - 1)
    IN  /\ cpc = "loop"
        /\ conn_attempt < get_connection_max_retries
        /\ met \in Meets(db_pool)
        /\ conn_log' = Append(conn_log, met)
        /\ IF got /\ test_connection(conn)
           THEN /\ conn_result' = [conn |-> conn]
                /\ cpc' = "returned"
                /\ UNCHANGED <<conn_attempt, put_closed>>
           ELSE /\ put_closed' = IF got THEN put_closed \cup {conn.serial}
                                 ELSE put_closed
                /\ conn_attempt' = conn_attempt + 1
                /\ cpc' = IF last THEN "exhausted"
                          ELSE IF met \in Operational THEN "reinit"
                          ELSE "loop"
                /\ UNCHANGED conn_result
        /\ UNCHANGED db_pool
        /\ UNCHANGED nonConnVars

\* After the sleep: self.pool.closeall(); self._init_pool(). When the pool
\* cannot be made again self.pool is left as the closed pool.
Reinit(made) ==
    /\ cpc = "reinit"
    /\ db_pool' = IF made THEN "open" ELSE "closed"
    /\ cpc' = "loop"
    /\ UNCHANGED <<conn_attempt, conn_log, put_closed, conn_result>>
    /\ UNCHANGED nonConnVars

\* raise RuntimeError(f"Failed to get database connection after ...")
ConnRaise ==
    /\ cpc = "exhausted"
    /\ cpc' = "raised"
    /\ conn_result' = [error |-> "RuntimeError"]
    /\ UNCHANGED <<db_pool, conn_attempt, conn_log, put_closed>>
    /\ UNCHANGED nonConnVars

ConnNext ==
    \/ \E made \in BOOLEAN : NewManager(made)
    \/ ConnCall
    \/ \E met \in {"no_pool", "connect_failed", "pool_error", "dead", "alive"} :
          Attempt(met)
    \/ \E made \in BOOLEAN : Reinit(made)
    \/ ConnRaise

ConnInit ==
    /\ cpc = "new"
    /\ db_pool = "unset"
    /\ conn_attempt = 0
    /\ conn_log = <<>>
    /\ put_closed = {}
    /\ conn_result = None

\* ================================================= day-change baseline
\* The yen a snapshot can hold for the class of the one position below.
SnapshotYen == {4, 5}

\* The position of the user whose dashboard is loaded: worth 6 yen.
BasePositions ==
    {[id |-> 1, asset_type |-> "jp_stock", quantity |-> 2, price |-> 3, avg_cost |-> 2]}

\* The row record_asset_snapshot stored on a date.
HistoryRow(record_date, yen) ==
    [record_date |-> record_date,
     values |-> [t \in AssetTypes |-> IF t = "jp_stock" THEN yen * FundUnit ELSE 0],
     total_value |-> yen * FundUnit]

\* The tables asset_history can be on a date: at most one row per date, none
\* later than that date.
Histories(date) ==
    UNION {{{HistoryRow(d, yen[d]) : d \in D} : yen \in [D -> SnapshotYen]} :
              D \in SUBSET (1..date)}

RECURSIVE ByDateDesc(_)
\* ORDER BY record_date DESC
ByDateDesc(rows) ==
    IF rows = {} THEN <<>>
    ELSE LET r == CHOOSE x \in rows : \A y \in rows : y.record_date <= x.record_date
         IN  <<r>> \o ByDateDesc(rows \ {r})

\* ... ORDER BY record_date DESC LIMIT 2
recent_records(rows) ==
    LET s == ByDateDesc(rows)
    IN  IF Len(s) > 2 THEN SubSeq(s, 1, 2) ELSE s

\* yesterday_data = recent_records[1] when there are two records, else None.
YesterdayData(recent) == IF Len(recent) >= 2 THEN recent[2] ELSE None

\* The dashboard is opened on a date, with the history as it is then.
OpenDashboard(date) ==
    /\ based.op # "open"
    /\ today_date' = date
    /\ \E rows \in Histories(date) : history' = rows
    /\ based' = [op |-> "open"]
    /\ UNCHANGED nonBaseVars

\* get_dashboard_data reads the two most recent rows and computes.
LoadDashboard ==
    /\ based.op = "open"
    /\ based' = [op |-> "get_dashboard_data",
                 yesterday_data |-> YesterdayData(recent_records(history)),
                 data |-> dashboard_data(BasePositions,
                                         YesterdayData(recent_records(history)),
                                         FallbackRate)]
    /\ UNCHANGED <<today_date, history>>
    /\ UNCHANGED nonBaseVars

BaseNext ==
    \/ \E date \in 1..HistoryDays : OpenDashboard(date)
    \/ LoadDashboard

BaseInit ==
    /\ today_date = 1
    /\ history = {}
    /\ based = [op |-> "none"]

\* ============================================ snapshot transaction steps
\* The steps of one attempt of record_asset_snapshot, each of which can raise.
TxSteps == <<"get_db", "select", "insert", "commit">>

NoTxn ==
    [pc |-> "idle", user_id |-> 0, attempt |-> 0, row |-> None,
     written |-> None, errors |-> <<>>]

\* What the attempt's transaction leaves of its writes when it is rolled back
\* without the rollback: conn.commit() in its place.
RollbackCommitting(tbl, written) ==
    IF written = None THEN tbl ELSE Upsert(tbl, written)

\* conn.rollback() in the except clauses of get_db (and the rollback psycopg2's
\* putconn gives a connection that is not idle): the writes of the open
\* transaction are discarded.
Rollback(tbl, written) == tbl

\* The locals of an attempt, from the tables its connection reads.
TxLocals(positions, hist, user_id, today, usd_jpy) ==
    LET values == ComputeValues(positions, user_id, usd_jpy)
        total_value == TotalValue(values)
        yesterday_record == FetchOne(hist, user_id, today - 1)
    IN  [user_id |-> user_id, today |-> today,
         values |-> values, total_value |-> total_value,
         prev_values |-> PrevValues(yesterday_record, values),
         prev_total_value |-> PrevTotalValue(yesterday_record, total_value)]

\* Midnight JST passes between two calls.
TxTick ==
    /\ txn.pc \in {"idle", "returned", "raised"}
    /\ tx_day < NumDays
    /\ tx_day' = tx_day + 1
    /\ UNCHANGED <<tx_table, txn>>
    /\ UNCHANGED nonTxVars

\* record_asset_snapshot(user_id) is called: attempt 0 begins.
TxCall(user_id) ==
    /\ txn.pc \in {"idle", "returned", "raised"}
    /\ txn' = [NoTxn EXCEPT !.pc = "get_db", !.user_id = user_id]
    /\ UNCHANGED <<tx_day, tx_table>>
    /\ UNCHANGED nonTxVars

\* get_db() yields a connection.
TxGetDb ==
    /\ txn.pc = "get_db"
    /\ txn' = [txn EXCEPT !.pc = "select"]
    /\ UNCHANGED <<tx_day, tx_table>>
    /\ UNCHANGED nonTxVars

\* The SELECTs of the attempt and the values computed from them; price is the
\* price the assets table holds for position 1 at that moment.
TxSelect(price, usd_jpy) ==
    /\ txn.pc = "select"
    /\ txn' = [txn EXCEPT !.pc = "insert",
                          !.row = SnapshotRow(TxLocals(
                                      [InitAssets EXCEPT ![1].price = price],
                                      tx_table, txn.user_id, tx_day, usd_jpy))]
    /\ UNCHANGED <<tx_day, tx_table>>
    /\ UNCHANGED nonTxVars

\* The INSERT executes inside the open transaction.
TxInsert ==
    /\ txn.pc = "insert"
    /\ txn' = [txn EXCEPT !.pc = "commit", !.written = txn.row]
    /\ UNCHANGED <<tx_day, tx_table>>
    /\ UNCHANGED nonTxVars

\* conn.commit() succeeds and the call returns.
TxCommit ==
    /\ txn.pc = "commit"
    /\ tx_table' = Upsert(tx_table, txn.written)
    /\ txn' = [txn EXCEPT !.pc = "returned", !.written = None]
    /\ UNCHANGED tx_day
    /\ UNCHANGED nonTxVars

\* The step at hand raises and the attempt is not the last: get_db rolls the
\* transaction back and gives the connection up, the error is logged, the
\* call sleeps and the next attempt begins.
TxRetry ==
    /\ txn.pc \in {TxSteps[i] : i \in DOMAIN TxSteps}
    /\ txn.attempt < max_retries - 1
    /\ tx_table' = Rollback(tx_table, txn.written)
    /\ txn' = [txn EXCEPT !.pc = "get_db", !.attempt = @ + 1, !.row = None,
                          !.written = None, !.errors = Append(@, txn.pc)]
    /\ UNCHANGED tx_day
    /\ UNCHANGED nonTxVars

\* The step at hand raises in the last attempt: rolled back, logged, re-raised.
TxRaise ==
    /\ txn.pc \in {TxSteps[i] : i \in DOMAIN TxSteps}
    /\ ~(txn.attempt < max_retries - 1)
    /\ tx_table' = Rollback(tx_table, txn.written)
    /\ txn' = [txn EXCEPT !.pc = "raised", !.row = None,
                          !.written = None, !.errors = Append(@, txn.pc)]
    /\ UNCHANGED tx_day
    /\ UNCHANGED nonTxVars

TxNext ==
    \/ TxTick
    \/ \E user_id \in Users : TxCall(user_id)
    \/ TxGetDb
    \/ \E price \in Prices, usd_jpy \in UsdJpyRates : TxSelect(price, usd_jpy)
    \/ TxInsert
    \/ TxCommit
    \/ TxRetry
    \/ TxRaise

TxInit ==
    /\ tx_day = 1
    /\ tx_table = {}
    /\ txn = NoTxn

\* ====================================================== float valuation
\* The two valuations as Python computes them: every operand is a float and
\* every product, quotient and sum is rounded to the nearest float, ties to
\* even. A float here holds a whole number of yen in MantissaBits bits.
RECURSIVE Pow2(_)
Pow2(n) == IF n = 0 THEN 1 ELSE 2 * Pow2(n - 1)

RECURSIVE UlpFrom(_, _)
UlpFrom(x, u) == IF x < Pow2(MantissaBits) * u THEN u ELSE UlpFrom(x, 2 * u)

\* The distance between neighbouring floats at x.
Ulp(x) == UlpFrom(x, 1)

\* x / y rounded to the nearest multiple of u, ties to even.
RoundQuotient(x, y, u) ==
    LET q == x \div (y * u)
        r == x % (y * u)
    IN  IF 2 * r < y * u THEN q * u
        ELSE IF 2 * r > y * u THEN (q + 1) * u
        ELSE IF q % 2 = 0 THEN q * u ELSE (q + 1) * u

\* float(x), x * y, x / y and x + y.
Fl(x) == RoundQuotient(x, 1, Ulp(x))
fmul(x, y) == Fl(x * y)
fdiv(x, y) == RoundQuotient(x, y, Ulp(x \div y))
fadd(x, y) == Fl(x + y)

RECURSIVE FSum(_)
\* sum(...) / total += ...: the terms added one by one, in the order given.
FSum(terms) ==
    IF terms = <<>> THEN 0
    ELSE fadd(FSum(SubSeq(terms, 1, Len(terms) - 1)), terms[Len(terms)])

RECURSIVE ById(_)
\* The rows of a query in the order of their ids.
ById(rows) ==
    IF rows = {} THEN <<>>
    ELSE LET a == CHOOSE x \in rows : \A y \in rows : x.id <= y.id
         IN  <<a>> \o ById(rows \ {a})

\* The loop of record_asset_snapshot with cash summed by price.
SnapshotFloatCashByPrice(assets_, asset_type, usd_jpy) ==
    LET rows == ById(assets_)
        qp == [i \in DOMAIN rows |-> fmul(Fl(rows[i].quantity), Fl(rows[i].price))]
        p  == [i \in DOMAIN rows |-> Fl(rows[i].price)]
    IN  IF asset_type = "us_stock" THEN fmul(FSum(qp), Fl(usd_jpy))
        ELSE IF asset_type = "investment_trust"
             THEN FSum([i \in DOMAIN rows |-> fdiv(qp[i], FundUnit)])
        ELSE IF asset_type = "insurance" THEN FSum(p)
        ELSE IF asset_type = "cash" THEN FSum(p)
        ELSE FSum(qp)

\* values[asset_type] of record_asset_snapshot: for us_stock the sum of the
\* products is multiplied by the rate.
SnapshotFloat(assets_, asset_type, usd_jpy) ==
    LET rows == ById(assets_)
        qp == [i \in DOMAIN rows |-> fmul(Fl(rows[i].quantity), Fl(rows[i].price))]
        q  == [i \in DOMAIN rows |-> Fl(rows[i].quantity)]
        p  == [i \in DOMAIN rows |-> Fl(rows[i].price)]
    IN  IF asset_type = "us_stock" THEN fmul(FSum(qp), Fl(usd_jpy))
        ELSE IF asset_type = "investment_trust"
             THEN FSum([i \in DOMAIN rows |-> fdiv(qp[i], FundUnit)])
        ELSE IF asset_type = "insurance" THEN FSum(p)
        ELSE IF asset_type = "cash" THEN FSum(q)
        ELSE FSum(qp)

\* calculate_current_value of the dashboard: for us_stock each product is
\* multiplied by the rate and the results are summed.
LiveFloat(assets_, asset_type, usd_jpy) ==
    LET rows == ById(assets_)
        qp == [i \in DOMAIN rows |-> fmul(Fl(rows[i].quantity), Fl(rows[i].price))]
        q  == [i \in DOMAIN rows |-> Fl(rows[i].quantity)]
        p  == [i \in DOMAIN rows |-> Fl(rows[i].price)]
    IN  IF asset_type = "us_stock"
        THEN FSum([i \in DOMAIN rows |-> fmul(qp[i], Fl(usd_jpy))])
        ELSE IF asset_type = "investment_trust"
             THEN FSum([i \in DOMAIN rows |-> fdiv(qp[i], FundUnit)])
        ELSE IF asset_type = "insurance" THEN FSum(p)
        ELSE IF asset_type = "cash" THEN FSum(q)
        ELSE FSum(qp)

\* The positions of user 1 under the two valuations: three in us_stock, two in
\* investment_trust, one in each other class; quantity and price not null.
FloatPool ==
    {[id |-> 1, user_id |-> 1, asset_type |-> "us_stock", quantity |-> 1, price |-> 200],
     [id |-> 2, user_id |-> 1, asset_type |-> "us_stock", quantity |-> 2, price |-> 3],
     [id |-> 3, user_id |-> 1, asset_type |-> "us_stock", quantity |-> 3, price |-> 7],
     [id |-> 4, user_id |-> 1, asset_type |-> "investment_trust",
      quantity |-> 100, price |-> 12800],
     [id |-> 5, user_id |-> 1, asset_type |-> "investment_trust",
      quantity |-> 8192, price |-> 2],
     [id |-> 6, user_id |-> 1, asset_type |-> "cash", quantity |-> 5, price |-> 0],
     [id |-> 7, user_id |-> 1, asset_type |-> "jp_stock", quantity |-> 2, price |-> 3],
     [id |-> 8, user_id |-> 1, asset_type |-> "gold", quantity |-> 2, price |-> 90],
     [id |-> 9, user_id |-> 1, asset_type |-> "crypto", quantity |-> 1, price |-> 60],
     [id |-> 10, user_id |-> 1, asset_type |-> "insurance", quantity |-> 1, price |-> 7]}

NoFloats == [op |-> "none"]

\* The user holds these positions at this rate.
FloatHold(positions, usd_jpy) ==
    /\ valued_float.op = "none"
    /\ valued_float' = [op |-> "held", positions |-> positions, usd_jpy |-> usd_jpy]
    /\ UNCHANGED nonFloatVars

\* record_asset_snapshot values them.
FloatRecord ==
    /\ valued_float.op = "held"
    /\ valued_float' =
          [op |-> "recorded", positions |-> valued_float.positions,
           usd_jpy |-> valued_float.usd_jpy,
           values |-> [t \in AssetTypes |->
                          SnapshotFloat(OfType(valued_float.positions, t), t,
                                        valued_float.usd_jpy)]]
    /\ UNCHANGED nonFloatVars

\* The dashboard values them.
FloatLive ==
    /\ valued_float.op = "recorded"
    /\ valued_float' =
          [op |-> "both", positions |-> valued_float.positions,
           usd_jpy |-> valued_float.usd_jpy,
           values |-> valued_float.values,
           totals |-> [t \in AssetTypes |->
                          LiveFloat(OfType(valued_float.positions, t), t,
                                    valued_float.usd_jpy)]]
    /\ UNCHANGED nonFloatVars

FloatNext ==
    \/ \E positions \in SUBSET FloatPool, usd_jpy \in ValRates :
          FloatHold(positions, usd_jpy)
    \/ FloatRecord
    \/ FloatLive

FloatInit == valued_float = NoFloats

\* ============================================================ daily job
\* The two daily jobs: the one APScheduler runs and the one the keep-alive
\* loop of routes/health runs.
Jobs == {"scheduled_update_all_prices", "run_daily_batch"}

\* SELECT id, username FROM users
JobUsers == <<1, 2, 3>>

NoJob == [kind |-> "none", pc |-> "idle", i |-> 0, calls |-> <<>>, ended |-> "no"]

\* A job with no try block inside its loop.
CaughtByJob(kind, call) == "job"

\* Where an exception raised during a call for one user is caught:
\* update_user_prices catches its own and returns 0; the try around
\* record_asset_snapshot (scheduler_service.py:52-56) and the try around the
\* loop body (health.py:44-77) catch the rest. Anything else goes to the
\* try of the whole job.
CaughtBy(kind, call) ==
    IF kind = "scheduled_update_all_prices" /\ call = "update_user_prices"
    THEN "callee"
    ELSE "loop"

\* The job after its work for the user at i is over.
NextUser(j) ==
    IF j.i < Len(JobUsers)
    THEN [j EXCEPT !.i = @ + 1, !.pc = "update"]
    ELSE [j EXCEPT !.pc = "done", !.ended = "returned"]

\* The job after an exception of a call was caught at where.
AfterException(j, where) ==
    IF where = "callee" THEN [j EXCEPT !.pc = "snapshot"]
    ELSE IF where = "loop" THEN NextUser(j)
    ELSE [j EXCEPT !.pc = "done", !.ended = "critical error logged"]

Called(j, call, ok) ==
    [j EXCEPT !.calls = Append(@, [user_id |-> JobUsers[j.i], call |-> call, ok |-> ok])]

\* The trigger fires (23:58 JST) and the job selects the users.
JobStart(kind, ok) ==
    /\ job.pc \in {"idle", "done"}
    /\ job' = IF ok
              THEN [NoJob EXCEPT !.kind = kind, !.pc = "update", !.i = 1]
              ELSE [NoJob EXCEPT !.kind = kind, !.pc = "done",
                                 !.ended = "critical error logged"]
    /\ UNCHANGED nonJobVars

\* The price update for the user at i: update_user_prices, or the statements
\* of health.py:46-69.
JobUpdate(ok) ==
    /\ job.pc = "update"
    /\ job' = IF ok
              THEN [Called(job, "update_user_prices", TRUE) EXCEPT !.pc = "snapshot"]
              ELSE AfterException(Called(job, "update_user_prices", FALSE),
                                  CaughtBy(job.kind, "update_user_prices"))
    /\ UNCHANGED nonJobVars

\* record_asset_snapshot for the user at i returns, or raises after its
\* last attempt.
JobSnapshot(ok) ==
    /\ job.pc = "snapshot"
    /\ job' = IF ok
              THEN NextUser(Called(job, "record_asset_snapshot", TRUE))
              ELSE AfterException(Called(job, "record_asset_snapshot", FALSE),
                                  CaughtBy(job.kind, "record_asset_snapshot"))
    /\ UNCHANGED nonJobVars

JobNext ==
    \/ \E kind \in Jobs, ok \in BOOLEAN : JobStart(kind, ok)
    \/ \E ok \in BOOLEAN : JobUpdate(ok)
    \/ \E ok \in BOOLEAN : JobSnapshot(ok)

JobInit == job = NoJob

\* ====================================== keep_alive loop of routes/health
\* Time of day in slots of ten seconds. The minutes of the day that matter to
\* the loop are the last three; every earlier minute reads like 23:57.
SlotsPerMinute == 6
DayMinutes == <<57, 58, 59>>
SlotsPerDay == SlotsPerMinute * Len(DayMinutes)

\* now_jst.minute (now_jst.hour is 23 in each of the three minutes).
Minute(slot) == DayMinutes[(slot \div SlotsPerMinute) + 1]

\* The clock d slots later.
Later(t, d) ==
    [date |-> t.date + ((t.slot + d) \div SlotsPerDay),
     slot |-> (t.slot + d) % SlotsPerDay]

\* time.sleep(50), which can return late.
SleepSlots == {5, 6}

\* requests.get(ping_url, timeout=10)
PingSlots == {0, 1}

\* How long run_daily_batch can take.
BatchSlots == {0, 1, 7}

\* The test of the loop without last_run_date.
DueAtMinute(t, last_run_date) == Minute(t.slot) = 58

\* now_jst.hour == 23 and now_jst.minute == 58 and last_run_date != current_date
Due(t, last_run_date) ==
    /\ Minute(t.slot) = 58
    /\ last_run_date # [date |-> t.date]

\* 1. requests.get(ping_url), its failure logged.
KaPing(d) ==
    /\ ka.pc = "ping"
    /\ Later(now_jst, d).date <= KeepAliveDays
    /\ now_jst' = Later(now_jst, d)
    /\ ka' = [ka EXCEPT !.pc = "check"]
    /\ UNCHANGED batches
    /\ UNCHANGED nonLoopVars

\* 2. The clock is read and tested; run_daily_batch is called if due.
KaCheck ==
    /\ ka.pc = "check"
    /\ IF Due(now_jst, ka.last_run_date)
       THEN /\ ka' = [ka EXCEPT !.pc = "batch",
                                !.current_date = [date |-> now_jst.date]]
            /\ batches' = Append(batches, now_jst)
       ELSE /\ ka' = [ka EXCEPT !.pc = "sleep",
                                !.current_date = [date |-> now_jst.date]]
            /\ UNCHANGED batches
    /\ UNCHANGED now_jst
    /\ UNCHANGED nonLoopVars

\* run_daily_batch returns (it catches its exceptions) and the date read
\* before the call is kept.
KaBatch(d) ==
    /\ ka.pc = "batch"
    /\ Later(now_jst, d).date <= KeepAliveDays
    /\ now_jst' = Later(now_jst, d)
    /\ ka' = [ka EXCEPT !.pc = "sleep", !.last_run_date = ka.current_date]
    /\ UNCHANGED batches
    /\ UNCHANGED nonLoopVars

\* time.sleep(50)
KaSleep(d) ==
    /\ ka.pc = "sleep"
    /\ Later(now_jst, d).date <= KeepAliveDays
    /\ now_jst' = Later(now_jst, d)
    /\ ka' = [ka EXCEPT !.pc = "ping"]
    /\ UNCHANGED batches
    /\ UNCHANGED nonLoopVars

LoopNext ==
    \/ \E d \in PingSlots : KaPing(d)
    \/ KaCheck
    \/ \E d \in BatchSlots : KaBatch(d)
    \/ \E d \in SleepSlots : KaSleep(d)

\* The thread starts on date 1 with last_run_date = None.
LoopInit ==
    /\ now_jst = [date |-> 1, slot |-> 0]
    /\ ka = [pc |-> "ping", last_run_date |-> None, current_date |-> None]
    /\ batches = <<>>

\* ====================================================== KeepAliveManager
\* The process runs on Render with RENDER_EXTERNAL_URL set. A thread is
\* "unborn" until start_thread creates it, then at the test of
\* `while self.running` ("test"), in the try block that sends the ping
\* ("ping"), in time.sleep(600) ("sleep"), or past the loop ("exited");
\* pings counts the times it entered the try block.
InLoop == {t \in 1..KeepAliveThreads : ka_threads[t].at \in {"test", "ping", "sleep"}}

Unborn == {t \in 1..KeepAliveThreads : ka_threads[t].at = "unborn"}

\* start_thread(): nothing if self.running, else running = True and a new
\* thread with target keep_alive is started.
StartThread ==
    /\ IF running
       THEN UNCHANGED <<running, ka_thread, ka_threads>>
       ELSE /\ Unborn # {}
            /\ LET t == CHOOSE x \in Unborn : \A y \in Unborn : x <= y
               IN  /\ running' = TRUE
                   /\ ka_thread' = [thread |-> t]
                   /\ ka_threads' = [ka_threads EXCEPT ![t].at = "test"]
    /\ UNCHANGED ka_stopped
    /\ UNCHANGED nonAliveVars

\* stop(): if self.running, running = False and thread.join(timeout=5), which
\* returns after five seconds whether or not the thread has ended.
Stop ==
    /\ running
    /\ running' = FALSE
    /\ ka_stopped' = [t \in 1..KeepAliveThreads |->
                         IF t \in InLoop /\ ka_stopped[t] = None
                         THEN [pings |-> ka_threads[t].pings]
                         ELSE ka_stopped[t]]
    /\ UNCHANGED <<ka_thread, ka_threads>>
    /\ UNCHANGED nonAliveVars

\* while self.running:
LoopTest(t) ==
    /\ ka_threads[t].at = "test"
    /\ running => ka_threads[t].pings < MaxPings
    /\ ka_threads' = [ka_threads EXCEPT ![t] =
                         IF running THEN [at |-> "ping", pings |-> @.pings + 1]
                         ELSE [at |-> "exited", pings |-> @.pings]]
    /\ UNCHANGED <<running, ka_thread, ka_stopped>>
    /\ UNCHANGED nonAliveVars

\* self.session.get(ping_url, timeout=10), its outcome logged.
SendPing(t) ==
    /\ ka_threads[t].at = "ping"
    /\ ka_threads' = [ka_threads EXCEPT ![t].at = "sleep"]
    /\ UNCHANGED <<running, ka_thread, ka_stopped>>
    /\ UNCHANGED nonAliveVars

\* time.sleep(600) returns.
WakeUp(t) ==
    /\ ka_threads[t].at = "sleep"
    /\ ka_threads' = [ka_threads EXCEPT ![t].at = "test"]
    /\ UNCHANGED <<running, ka_thread, ka_stopped>>
    /\ UNCHANGED nonAliveVars

AliveNext ==
    \/ StartThread
    \/ Stop
    \/ \E t \in 1..KeepAliveThreads : LoopTest(t)
    \/ \E t \in 1..KeepAliveThreads : SendPing(t)
    \/ \E t \in 1..KeepAliveThreads : WakeUp(t)

AliveInit ==
    /\ running = FALSE
    /\ ka_thread = None
    /\ ka_threads = [t \in 1..KeepAliveThreads |-> [at |-> "unborn", pings |-> 0]]
    /\ ka_stopped = [t \in 1..KeepAliveThreads |-> None]

\* ======================================================== specifications
\* get_dashboard_data has not been called yet.
NotLoaded == [loaded |-> FALSE]

DashInit ==
    /\ portfolio = {}
    /\ yesterday_data = None
    /\ dashboard = NotLoaded

ValInit == valued = NotValued

AdapterInit ==
    /\ http = [state |-> "idle"]
    /\ looked = [op |-> "none"]

UpdInit ==
    /\ stored = InitStored
    /\ upd_ret = [op |-> "none"]

Init == SnapInit /\ FetchInit /\ PoolInit /\ CacheInit /\ DashInit /\ ValInit
        /\ UpdInit /\ AdapterInit /\ BatchInit /\ ConnInit /\ BaseInit /\ TxInit /\ FloatInit /\ JobInit /\ LoopInit /\ AliveInit

SnapshotSpec == Init /\ [][SnapNext]_vars

FetchSpec == Init /\ [][FetchNext]_vars

PoolSpec == Init /\ [][PoolNext]_vars

CacheSpec == Init /\ [][CacheNext]_vars

QuoteSpec == Init /\ [][QuoteNext]_vars

ThreadSpec == Init /\ [][ThreadNext]_vars

DashSpec == Init /\ [][DashNext]_vars

ValSpec == Init /\ [][ValNext]_vars

UpdateSpec == Init /\ [][UpdNext]_vars

AdapterSpec == Init /\ [][AdapterNext]_vars

BatchSpec == Init /\ [][BatchNext]_vars

ConnSpec == Init /\ [][ConnNext]_vars

BaselineSpec == Init /\ [][BaseNext]_vars

TxSpec == Init /\ [][TxNext]_vars

FloatSpec == Init /\ [][FloatNext]_vars

LoopSpec == Init /\ [][LoopNext]_vars

AliveSpec == Init /\ [][AliveNext]_vars

\* A job that has begun goes on: each of its calls returns or raises.
JobSpec == Init /\ [][JobNext]_vars /\ WF_vars(JobNext)

\* ================================================================ claims
\* The step in which caller p commits its attempt and returns.
CommitStep(p) == pc[p] = "write" /\ pc'[p] = "returned"

\* The row of (user_id, record_date) after the step.
RowAfter(user_id, record_date) == FetchOne(asset_history', user_id, record_date)

PrevEqualsCurrent(r) ==
    /\ r.prev_values = r.values
    /\ r.prev_total_value = r.total_value

SamePrev(r1, r2) ==
    /\ r1.prev_values = r2.prev_values
    /\ r1.prev_total_value = r2.prev_total_value

C3_PrevFromYesterdayVerbatim ==
    [][\A p \in Procs :
          (CommitStep(p) /\ loc[p].yesterday_record # None) =>
              LET after == RowAfter(loc[p].user_id, loc[p].today)
                  y == loc[p].yesterday_record
              IN  /\ y.user_id = loc[p].user_id
                  /\ y.record_date = loc[p].today - 1
                  /\ after # None
                  /\ after.prev_values = y.values
                  /\ after.prev_total_value = y.total_value]_vars

\* A day-2 row carries its user's day-1 values while its own values differ.
C3_Witness ==
    \E r \in asset_history, y \in asset_history :
        /\ r.user_id = y.user_id
        /\ y.record_date = 1
        /\ r.record_date = 2
        /\ r.prev_values = y.values
        /\ r.values # y.values

\* C4: at most one row per (user, date), and exactly one for every (user, date)
\* some call committed.
C4_OneRowPerUserDate ==
    \A u \in Users, d \in 1..NumDays :
        /\ Cardinality(RowsAt(asset_history, u, d)) <= 1
        /\ <<u, d>> \in committed => Cardinality(RowsAt(asset_history, u, d)) = 1
        /\ <<u, d>> \notin committed => RowsAt(asset_history, u, d) = {}

\* A call has failed for good, and a recording is about to rewrite a committed
\* (user, date) with other values.
C4_Witness ==
    /\ \E p \in Procs : pc[p] = "raised"
    /\ \E q \in Procs :
          /\ pc[q] = "write"
          /\ <<loc[q].user_id, loc[q].today>> \in committed
          /\ SnapshotRow(loc[q]) \notin asset_history

\* C5: when two recordings of one (user, date) interleave, each commit leaves
\* exactly one row for the key, all of whose fields are the committing call's,
\* and leaves the other call's attempt as it was, free to commit in its turn.
C5_RaceWholeRowFromOneCall ==
    [][\A u \in Users, d \in 1..NumDays :
          (RowsAt(asset_history', u, d) # RowsAt(asset_history, u, d)) =>
              \E p \in Procs :
                  /\ CommitStep(p)
                  /\ loc[p].user_id = u /\ loc[p].today = d
                  /\ RowsAt(asset_history', u, d) = {SnapshotRow(loc[p])}
                  /\ \A q \in Procs \ {p} :
                        pc[q] = "write" => (pc'[q] = "write" /\ loc'[q] = loc[q])]_vars

\* Both callers have read for the same (user, date), with different values, and
\* a row for that key is already there.
C5_Witness ==
    \E p \in Procs, q \in Procs :
        /\ p # q
        /\ pc[p] = "write" /\ pc[q] = "write"
        /\ loc[p].user_id = loc[q].user_id
        /\ loc[p].today = loc[q].today
        /\ loc[p].values # loc[q].values
        /\ RowsAt(asset_history, loc[p].user_id, loc[p].today) # {}

\* C6: a recording for (user, d) inserts, changes and deletes no row of another
\* (user, date).
C6_OtherRowsUntouched ==
    [][\A u \in Users, d \in 1..NumDays :
          (RowsAt(asset_history', u, d) # RowsAt(asset_history, u, d)) =>
              \E p \in Procs :
                  CommitStep(p) /\ loc[p].user_id = u /\ loc[p].today = d]_vars

\* Rows of both users stand, one of them of an earlier date than today.
C6_Witness ==
    /\ \E r \in asset_history : r.user_id = 1 /\ r.record_date < clock
    /\ \E r \in asset_history : r.user_id = 2
    /\ \E r \in asset_history : r.user_id = 1 /\ r.record_date = clock

\* C7: at most 3 attempts; a commit returns at once; each failed attempt but
\* the last is followed by a sleep of (attempt number) seconds; the third
\* failure raises, with nothing written and no further sleep.
C7_ThreeAttemptsThenRaise ==
    [][\A p \in Procs :
          /\ loc'[p].attempt <= 2
          /\ pc'[p] = "write" =>
                slept'[p] = [i \in 1..loc'[p].attempt |-> i]
          /\ (pc[p] = "write" /\ pc'[p] = "write" /\ loc'[p] # loc[p]) =>
                /\ loc'[p].attempt = loc[p].attempt + 1
                /\ slept'[p] = Append(slept[p], loc[p].attempt + 1)
                /\ asset_history' = asset_history
          /\ (pc[p] = "write" /\ pc'[p] = "returned") =>
                SnapshotRow(loc[p]) \in asset_history'
          /\ (pc[p] = "write" /\ pc'[p] = "raised") =>
                /\ loc[p].attempt = 2
                /\ slept[p] = <<1, 2>>
                /\ asset_history' = asset_history
          /\ (asset_history' # asset_history /\ pc[p] = "write" /\ pc'[p] # "returned") =>
                \E q \in Procs \ {p} : CommitStep(q)]_vars

\* One caller's call has raised and the other is in its third attempt.
C7_Witness ==
    \E p \in Procs, q \in Procs :
        /\ pc[p] = "raised"
        /\ pc[q] = "write" /\ loc[q].attempt = 2 /\ slept[q] = <<1, 2>>

\* ------------------------------------------------- fetch_prices_parallel
\* N positions in the batch, K of them with a failed lookup.
BatchSize == Len(futures)
FailedLookups == {f \in Done : futures[f].result = None}
ResultIds == {updated_prices[i].id : i \in 1..Len(updated_prices)}

\* C8 as stated: a batch of N positions of which exactly K lookups fail returns
\* exactly N - K results.
C8_ExactlyNMinusK ==
    fpc = "returned" =>
        Len(updated_prices) = BatchSize - Cardinality(FailedLookups)

\* C8 amended: the batch returns exactly N - K results when the 180 s aggregate
\* timeout does not fire, and at most N - K (so never more than N) when it does;
\* every result is a quote.
C8_NMinusKUnlessTimeout ==
    /\ Len(updated_prices) <= BatchSize
    /\ \A i \in 1..Len(updated_prices) : updated_prices[i] # None
    /\ fpc = "returned" =>
          /\ Len(updated_prices) <= BatchSize - Cardinality(FailedLookups)
          /\ ~timed_out =>
                Len(updated_prices) = BatchSize - Cardinality(FailedLookups)

\* A batch of three with exactly one failed lookup has returned, with no timeout.
C8_Witness ==
    /\ fpc = "returned"
    /\ ~timed_out
    /\ BatchSize = 3
    /\ Cardinality(FailedLookups) = 1
    /\ Len(updated_prices) = 2

\* C9 as stated: once the aggregate timeout has fired with lookups pending, the
\* call returns without waiting for them: it is able to return at once.
C9_ReturnsWithoutWaiting ==
    (fpc = "shutdown" /\ timed_out) => ENABLED FetchReturn

\* C10 as stated: a lookup that runs longer than the 15 s per-task timeout is
\* not in the result; the lookups that succeed within it are (when the whole
\* batch is not cut short).
C10_SlowLookupDropped ==
    fpc = "returned" =>
        \A f \in DOMAIN futures :
            /\ futures[f].ran > per_task_timeout => f \notin ResultIds
            /\ (futures[f].ran <= per_task_timeout /\ futures[f].result # None
                    /\ ~timed_out) => f \in ResultIds

\* C11: while fetch_prices_parallel serves a batch of N positions, the number
\* of lookups being executed is at most min(5, N) at every moment.
C11_AtMostMinFiveN ==
    /\ pool_running <= 5
    /\ pool_running <= pool_n

\* A batch of more than five positions with five lookups being executed and
\* at least one waiting for a worker.
C11_Witness ==
    /\ pool_n > 5
    /\ pool_running = 5
    /\ pool_queue > 0

\* The last operation was fetch_price on a position of the given class.
LookedUp(asset_type) == ret.op = "fetch_price" /\ ret.asset.asset_type = asset_type

\* C12: a lookup of a cash or insurance position sends no request and yields
\* no quote; it ends before the delay that precedes any request, and leaves
\* the cache as it was.
C12_CashInsuranceNeverFetched ==
    (LookedUp("cash") \/ LookedUp("insurance")) =>
        /\ ret.requests = {}
        /\ ret.result = None
        /\ ~ret.slept
        /\ ret.wrote = {}

\* A cash position has been looked up while the cache holds quotes.
C12_Witness ==
    /\ LookedUp("cash")
    /\ DOMAIN cache # {}

\* C13 as stated: a lookup of a crypto symbol outside {BTC, ETH, XRP, DOGE}, or
\* of a fund symbol outside the fund allow-list, sends no request, yields no
\* quote and writes nothing to the cache.
C13_OutsideListNoRequest ==
    (\/ LookedUp("crypto") /\ ret.asset.symbol \notin {"BTC", "ETH", "XRP", "DOGE"}
     \/ LookedUp("investment_trust")
            /\ ret.asset.symbol \notin {"S&P500", "ALLCOUNTRY", "FANG+"}) =>
        /\ ret.requests = {}
        /\ ret.result = None
        /\ ret.wrote = {}

\* C13 amended: the crypto allow-list is compared with the upper-case form of
\* the symbol, the fund allow-list with the symbol as stored. A lookup of a
\* crypto symbol whose upper-case form is outside {BTC, ETH, XRP, DOGE}, or of
\* a fund symbol that is not literally in the fund allow-list, sends no
\* request, yields no quote and writes nothing to the cache; a crypto symbol
\* in lower case of a listed one is looked up like the listed one.
C13_OutsideListAfterUpper ==
    /\ (\/ LookedUp("crypto")
            /\ Upper(ret.asset.symbol) \notin {"BTC", "ETH", "XRP", "DOGE"}
        \/ LookedUp("investment_trust")
            /\ ret.asset.symbol \notin {"S&P500", "ALLCOUNTRY", "FANG+"}) =>
           /\ ret.requests = {}
           /\ ret.result = None
           /\ ret.wrote = {}
    /\ (LookedUp("crypto") /\ ret.asset.symbol = "btc" /\ ret.hit = None) =>
           ret.requests = {<<"crypto", "BTC">>}

\* Lookups of an unlisted symbol have run their delay and ended without a
\* quote: a crypto one, and a fund one that differs from a listed one by case.
C13_Witness ==
    /\ ret.op = "fetch_price"
    /\ ret.asset.symbol \in {"SHIB", "fang+"}
    /\ ret.slept
    /\ ret.result = None

\* C14: a lookup that finds an unexpired entry under the position's
\* '<class>:<symbol>' key returns that entry's price and name, sends no request
\* and does not run the delay.
C14_CacheHitNoNetwork ==
    (ret.op = "fetch_price" /\ ret.hit # None) =>
        /\ ret.result # None
        /\ ret.result.id = ret.asset.id
        /\ ret.result.price = ret.hit.price
        /\ ret.result.name = ret.hit.name
        /\ ret.requests = {}
        /\ ~ret.slept
        /\ ret.wrote = {}

\* A lookup was served from an entry whose price is no longer the market's.
C14_Witness ==
    /\ ret.op = "fetch_price"
    /\ ret.hit # None
    /\ ret.at = ctime
    /\ ret.result.price # MarketPrice(ctime)

\* C18: get_usd_jpy_rate returns the rate of an unexpired USD_JPY entry without
\* a request; otherwise the fetched rate, which it stores under USD_JPY for
\* 300 s; it returns the fallback 150 exactly when there is no such entry and
\* the fetch fails or holds no rate, and then it stores nothing; it never
\* raises.
C18_RateCachedFetchedOrFallback ==
    ret.op = "get_usd_jpy_rate" =>
        /\ ~ret.raised
        /\ ret.hit # None =>
              /\ ret.result = ret.hit.rate
              /\ ret.requests = {}
              /\ ret.wrote = {}
        /\ (ret.hit = None /\ ret.net = "ok") =>
              /\ ret.result = MarketRate(ret.at)
              /\ UsdJpyKey \in DOMAIN cache
              /\ cache[UsdJpyKey] = [rate |-> ret.result]
              /\ expiry[UsdJpyKey] = ret.at + 300
        /\ ret.fallback <=> (ret.hit = None /\ ret.net # "ok")
        /\ ret.fallback =>
              /\ ret.result = 150
              /\ ret.wrote = {}
              /\ UsdJpyKey \notin DOMAIN cache

\* The fallback was returned after an earlier rate had expired.
C18_Witness ==
    /\ ret.op = "get_usd_jpy_rate"
    /\ ret.fallback
    /\ UsdJpyKey \in DOMAIN last_set

\* The last operation was get(key) on a key set, and not deleted or cleared
\* since, whose last set was made at instant t.
GotSetAt(t) ==
    /\ ret.op = "get"
    /\ ret.key \in DOMAIN last_set
    /\ last_set[ret.key].at = t

\* C15: a get(key) made 300 s or more after the last set(key, ...) returns a
\* miss and leaves the key in neither dict; as no get restarts the 300 s, every
\* later get misses too, until the next set.
C15_ExpiredStaysExpired ==
    \A t \in 0..MaxCacheTime :
        (GotSetAt(t) /\ ret.at >= t + 300) =>
            /\ ret.value = None
            /\ ret.key \notin DOMAIN cache
            /\ ret.key \notin DOMAIN expiry

\* A get made exactly 300 s after the set of its key.
C15_Witness ==
    \E t \in 0..MaxCacheTime :
        /\ GotSetAt(t)
        /\ ret.at = t + 300

\* C16: a get(key) made less than 300 s after the last set(key, v) returns v,
\* whatever was set or had expired under the key before; a get(key) with no
\* set since the last delete(key) or clear() returns a miss.
C16_SetGetDeleteClear ==
    /\ \A t \in 0..MaxCacheTime :
          (GotSetAt(t) /\ ret.at < t + 300) =>
              /\ ret.value = last_set[ret.key].value
              /\ ret.key \in DOMAIN cache
    /\ (ret.op = "get" /\ ret.key \notin DOMAIN last_set) =>
          /\ ret.value = None
          /\ ret.key \notin DOMAIN cache

\* A get returns a value 300 s or more after the clock started: the value of
\* a set made after the start.
C16_Witness ==
    /\ ret.op = "get"
    /\ ret.value # None
    /\ ret.at >= 300

\* C17 as stated: whatever the interleaving of the worker threads' get and set
\* calls, no call raises, and whenever no thread is inside a cache method each
\* key is in both dicts (value and expiry instant) or in neither.
C17_ConcurrentCacheSafe ==
    /\ ret.op \in {"get", "set"} => ~ret.raised
    /\ (\A w \in Threads : tpc[w] = Idle) => DOMAIN cache = DOMAIN expiry

\* The dashboard has been computed.
Loaded == dashboard # NotLoaded /\ dashboard # None

\* The value of the user's positions of a class, 0 when there is none.
CurrentValue(asset_type) ==
    calculate_current_value(OfType(portfolio, asset_type), asset_type, FallbackRate)

\* C19 as stated: with a previous snapshot, the day-change reported for each
\* class is its current value minus the previous snapshot's value of the
\* class, also for a class with no position (current value 0).
C19_DayChangeCurrentMinusPrevious ==
    (Loaded /\ yesterday_data # None) =>
        \A t \in AssetTypes :
            dashboard.stats[t].day_change = CurrentValue(t) - yesterday_data.values[t]

\* C20: get_dashboard_data does not fail, no class falls into the exception
\* branch, and the day-change rate of a class, and of the total, is 0 when
\* there is no previous snapshot or its previous value is 0.
C20_RateZeroWithoutPrevious ==
    /\ dashboard # None
    /\ Loaded =>
          /\ \A t \in AssetTypes : ~dashboard.stats[t].error
          /\ \A t \in AssetTypes :
                (yesterday_data = None \/ yesterday_data.values[t] = 0) =>
                    dashboard.stats[t].day_change_rate.num = 0
          /\ (yesterday_data = None \/ yesterday_data.total_value = 0) =>
                dashboard.total_day_change_rate.num = 0

\* A previous snapshot whose values are all 0 while the user holds positions
\* now: every non-zero change meets a zero previous value.
C20_Witness ==
    /\ Loaded
    /\ yesterday_data # None
    /\ yesterday_data.total_value = 0
    /\ dashboard.total_day_change > 0
    /\ \E t \in AssetTypes : dashboard.stats[t].day_change > 0

\* ------------------------------------------------------------- valuation
\* The value the last valuation gave a class, in 1/FundUnit yen.
ClassValue(asset_type) ==
    IF valued.by = "record_asset_snapshot" THEN valued.values[asset_type]
    ELSE valued.data.stats[asset_type].total

\* The last valuation came back with figures.
Valued ==
    /\ valued.by # "none"
    /\ valued.by = "get_dashboard_data" => valued.data # None

Live == valued.by = "get_dashboard_data" /\ valued.data # None

\* The positions of one class among those last valued.
Held(asset_type) == OfType(valued.positions, asset_type)

QuantityTimesPrice(S) == SumOver(S, [a \in S |-> a.quantity * a.price])
QuantityTimesCost(S) == SumOver(S, [a \in S |-> a.quantity * a.avg_cost])
Quantities(S) == SumOver(S, [a \in S |-> a.quantity])

C22_FundValueAndCost ==
    Valued =>
        /\ ClassValue("investment_trust") =
               QuantityTimesPrice(Held("investment_trust"))
        /\ Live =>
               valued.data.stats["investment_trust"].cost =
                   QuantityTimesCost(Held("investment_trust"))
        /\ {a.id : a \in Held("investment_trust")} = {3}
               => ClassValue("investment_trust") * 100 = 15234 * FundUnit

\* The snapshot has valued the 100 units at 15234 alone.
C22_Witness ==
    /\ valued.by = "record_asset_snapshot"
    /\ {a.id : a \in Held("investment_trust")} = {3}
    /\ valued.values["investment_trust"] = 1523400

\* C23: for any set of cash positions the class value is the sum of their
\* quantities and the class cost is 0, whatever their price and avg_cost.
C23_CashValueAndCost ==
    Valued =>
        /\ ClassValue("cash") = Quantities(Held("cash")) * FundUnit
        /\ Live => valued.data.stats["cash"].cost = 0

\* The live totals have valued cash positions one of which has an avg_cost.
C23_Witness ==
    /\ Live
    /\ Cardinality(Held("cash")) = 2
    /\ \E a \in Held("cash") : a.avg_cost > 0
    /\ valued.data.stats["cash"].total = 8 * FundUnit

\* C24: in every class, profit is value minus cost, and profit_rate is
\* profit / cost x 100 when cost > 0 and 0 otherwise; value and cost are what
\* the class's positions come to.
C24_ProfitAndRate ==
    Live =>
        \A t \in AssetTypes :
            LET st == valued.data.stats[t]
                value == calculate_current_value(Held(t), t, valued.usd_jpy)
                cost == cost_value(Held(t), t, valued.usd_jpy)
            IN  /\ st.total = value
                /\ st.cost = cost
                /\ st.profit = value - cost
                /\ st.profit_rate =
                      IF cost > 0 THEN [num |-> value - cost, den |-> cost]
                      ELSE ZeroRate

\* One class has a cost and a rate, another has positions and no cost.
C24_Witness ==
    /\ Live
    /\ valued.data.stats["us_stock"].cost > 0
    /\ valued.data.stats["us_stock"].profit_rate.num # 0
    /\ valued.data.stats["cash"].total > 0
    /\ valued.data.stats["cash"].cost = 0
    /\ valued.data.stats["cash"].profit_rate = ZeroRate

SixClasses ==
    {"jp_stock", "us_stock", "gold", "crypto", "investment_trust", "insurance"}

\* The portfolio last valued with its cash positions replaced by C.
WithCash(C) == (valued.positions \ Held("cash")) \cup C

\* C25: the total value is the sum of the seven class values, cash among
\* them (in the snapshot and in the live totals); total profit is the sum of
\* the values less the sum of the costs of the six other classes; so with
\* other cash positions the total value moves by the difference in cash and
\* total profit and total profit rate stay what they are.
C25_CashInValueNotInProfit ==
    /\ valued.by = "record_asset_snapshot" =>
           valued.total_value =
               SumOver(SixClasses, valued.values) + valued.values["cash"]
    /\ Live =>
           LET d == valued.data
               value6 == SumOver(SixClasses, [t \in SixClasses |-> d.stats[t].total])
               cost6 == SumOver(SixClasses, [t \in SixClasses |-> d.stats[t].cost])
           IN  /\ d.total_assets = value6 + d.stats["cash"].total
               /\ d.total_profit = value6 - cost6
               /\ d.total_profit_rate =
                      IF cost6 > 0 THEN [num |-> value6 - cost6, den |-> cost6]
                      ELSE ZeroRate
               /\ \A C \in SUBSET OfType(ValPool, "cash") :
                      LET e == dashboard_data(WithCash(C), None, valued.usd_jpy)
                      IN  /\ e # None
                          /\ e.total_profit = d.total_profit
                          /\ e.total_profit_rate = d.total_profit_rate
                          /\ e.total_assets - d.total_assets =
                                (Quantities(C) - Quantities(Held("cash"))) * FundUnit

\* The live totals hold cash and other classes, and profit leaves cash out.
C25_Witness ==
    /\ Live
    /\ Held("cash") # {}
    /\ Held("jp_stock") # {}
    /\ Held("us_stock") # {}
    /\ valued.data.total_profit # 0
    /\ valued.data.total_assets - valued.data.stats["cash"].total
          = valued.data.total_profit
            + SumOver(SixClasses,
                      [t \in SixClasses |-> valued.data.stats[t].cost])

\* ---------------------------------------------------------- price update
Updated == upd_ret.op = "update_user_prices"

\* The classes a lookup exists for.
FetchableClasses == {"jp_stock", "us_stock", "gold", "crypto", "investment_trust"}

\* The positions of the call's user in a class a lookup exists for.
Fetchable ==
    {i \in DOMAIN upd_ret.before :
        /\ upd_ret.before[i].user_id = upd_ret.user_id
        /\ upd_ret.before[i].asset_type \in FetchableClasses}

\* The positions fetch_prices_parallel returned a quote for.
Quoted == DOMAIN upd_ret.updated_prices

\* The K quoted positions hold the quote's price and name, every other row
\* is what it was before the call, and the call returned K.
ReplacedAndCounted ==
    /\ \A i \in Quoted :
          /\ i \in Fetchable
          /\ stored[i].price = upd_ret.updated_prices[i].price
          /\ stored[i].name = upd_ret.updated_prices[i].name
    /\ \A i \in DOMAIN stored \ Quoted : stored[i] = upd_ret.before[i]
    /\ upd_ret.returned = Cardinality(Quoted)

\* C26 as stated: after update_user_prices in which K of the M fetchable
\* positions obtained a quote, exactly those K hold the quote's price and
\* name, the other M-K keep their price, and the call returns K.
C26_QuotedReplacedReturnsK ==
    Updated => ReplacedAndCounted

\* C26: the same when the UPDATEs and the commit succeed; when one of them
\* fails the transaction is rolled back, no row changes and the call returns 0.
C26_QuotedReplacedUnlessRolledBack ==
    Updated =>
        /\ ~upd_ret.rolled_back => ReplacedAndCounted
        /\ upd_ret.rolled_back =>
              /\ stored = upd_ret.before
              /\ upd_ret.returned = 0

\* Two of three positions got a quote and were written; the third keeps a
\* price an earlier call gave it.
C26_Witness ==
    /\ Updated
    /\ ~upd_ret.rolled_back
    /\ Cardinality(Fetchable) = 3
    /\ Cardinality(Quoted) = 2
    /\ upd_ret.returned = 2
    /\ \E i \in Fetchable \ Quoted :
          stored[i].price # 0 /\ stored[i].price = upd_ret.before[i].price
    /\ \E i \in Quoted :
          stored[i].price # upd_ret.before[i].price /\ stored[i].name # stored[i].symbol

\* C27: update_user_prices for a user with no position in a fetchable class
\* dispatches no lookup, writes nothing and returns 0; fetch_prices_parallel
\* on an empty list returns an empty list and submits nothing to a worker.
C27_NothingToFetchIsNoOp ==
    /\ (Updated /\ Fetchable = {}) =>
          /\ upd_ret.dispatched = {}
          /\ ~upd_ret.wrote
          /\ ~upd_ret.rolled_back
          /\ stored = upd_ret.before
          /\ upd_ret.returned = 0
    /\ (fpc = "returned" /\ handled = {} /\ ~timed_out /\ futures = <<>>) =>
          /\ updated_prices = <<>>
          /\ Running = {}
          /\ Queued = {}

\* Both calls have been made: the update for the user with cash and
\* insurance only, and the parallel fetch of an empty list.
C27_Witness ==
    /\ Updated
    /\ upd_ret.user_id = 2
    /\ Fetchable = {}
    /\ upd_ret.returned = 0
    /\ fpc = "returned"
    /\ futures = <<>>

\* -------------------------------------------------------------- adapters
Looked == looked.op = "fetch_price"

\* C28 as stated: every quote a lookup returns has a price > 0, in every
\* class, and between 1000 and 100000 for a fund; a response whose extracted
\* value fails the filter gives no quote and no cache entry.
C28_QuotePricePositive ==
    Looked =>
        /\ looked.quote # None =>
              /\ looked.quote.price > 0
              /\ looked.asset_type = "investment_trust" =>
                    /\ 1000 * Milli <= looked.quote.price
                    /\ looked.quote.price <= 100000 * Milli
        /\ looked.cached # None =>
              /\ looked.cached.price > 0
              /\ looked.cached = looked.quote

Scraped == Looked /\ looked.asset_type \in {"crypto", "investment_trust"}

\* What strategy k yields on the body of the last lookup.
YieldOf(k) == StrategyYield(looked.asset_type, k, looked.body[k])

\* C29: in _fetch_crypto and _fetch_investment_trust the strategies are
\* tried in one order on the same body; the price returned is the value
\* (rounded to two decimals) of the first strategy that yields a value
\* passing the sanity check: a later strategy's value is returned only if
\* every earlier one yielded none, and the lookup fails only if all did.
C29_FirstYieldingStrategyWins ==
    Scraped =>
        /\ looked.quote = None <=>
              \A k \in DOMAIN looked.body : YieldOf(k) = None
        /\ looked.quote # None =>
              \E k \in DOMAIN looked.body :
                  /\ YieldOf(k) # None
                  /\ \A j \in 1..(k - 1) : YieldOf(j) = None
                  /\ looked.quote.price = Round2(YieldOf(k).value)

\* Strategies 1 and 2 of _fetch_crypto matched a number that failed the
\* check, strategies 3 and 5 both yield, and the price is strategy 3's.
C29_Witness ==
    /\ Scraped
    /\ looked.asset_type = "crypto"
    /\ Len(looked.body[1]) > 0
    /\ Len(looked.body[2]) > 0
    /\ YieldOf(1) = None
    /\ YieldOf(2) = None
    /\ YieldOf(3) # None
    /\ YieldOf(5) # None
    /\ looked.quote # None
    /\ looked.quote.price = 300010

\* ----------------------------------------------------- quote then cache
\* The cache key of the position a fetch_price call was made for.
KeyOf(call) == CacheKey(call.asset.asset_type, call.asset.symbol)

\* C30: when fetch_price returns a quote it got from the network, the cache
\* holds that price and name under the position's class and symbol, with a
\* full TTL from the call; and a fetch_price for a class and symbol made
\* before the TTL of the last network quote for them has elapsed sends no
\* request and returns that quote's price and name.
C30_NetworkQuoteIsCachedFirst ==
    [][(ret' # ret /\ ret'.op = "fetch_price") =>
          /\ (ret'.result # None /\ ret'.requests # {}) =>
                /\ KeyOf(ret') \in DOMAIN cache'
                /\ cache'[KeyOf(ret')] =
                      [price |-> ret'.result.price, name |-> ret'.result.name]
                /\ expiry'[KeyOf(ret')] = ret'.at + duration
                /\ ret'.wrote = {KeyOf(ret')}
          /\ ( /\ KeyOf(ret') \in DOMAIN last_set
               /\ ret'.at < last_set[KeyOf(ret')].at + duration ) =>
                /\ ret'.requests = {}
                /\ ret'.result # None
                /\ ret'.result.price = last_set[KeyOf(ret')].value.price
                /\ ret'.result.name = last_set[KeyOf(ret')].value.name
    ]_vars

\* A lookup was served from the cache some time after the network quote
\* was stored, within the TTL, with the stored price.
C30_Witness ==
    /\ ret.op = "fetch_price"
    /\ ret.result # None
    /\ ret.requests = {}
    /\ KeyOf(ret) \in DOMAIN last_set
    /\ last_set[KeyOf(ret)].at < ret.at
    /\ ret.at < last_set[KeyOf(ret)].at + duration
    /\ ret.result.price = last_set[KeyOf(ret)].value.price
    /\ ret.result.price = MarketPrice(last_set[KeyOf(ret)].at)

\* ---------------------------------------------------- results of a batch
\* The requested positions a result's id and symbol belong to.
Requested(result) ==
    {i \in DOMAIN batch :
        batch[i].id = result.id /\ batch[i].symbol = result.symbol}

\* The lookup a result came from.
LookupOf(result) == CHOOSE i \in DOMAIN batch : batch[i].id = result.id

\* Every result is one requested position's, and no id appears twice.
OnePositionEach ==
    /\ \A k \in DOMAIN out : Cardinality(Requested(out[k])) = 1
    /\ \A j, k \in DOMAIN out : j # k => out[j].id # out[k].id

\* C31 as stated: every result of fetch_prices_parallel carries the id and
\* symbol of exactly one requested position, no id appears twice, and the
\* results stand in the order in which their lookups completed.
C31_OnePositionEachInCompletionOrder ==
    /\ OnePositionEach
    /\ \A j, k \in DOMAIN out :
          j < k => PlaceOf(LookupOf(out[j])) < PlaceOf(LookupOf(out[k]))

\* C31: every result carries the id and symbol of exactly one requested
\* position, also when the quote came from the cache and when two positions
\* share class and symbol, and no id appears twice; the results of lookups
\* that finish after as_completed was called stand in completion order, behind
\* those of the lookups already finished by then, which stand in no
\* specified order.
C31_OnePositionEachInYieldOrder ==
    /\ OnePositionEach
    /\ \A j, k \in DOMAIN out :
          j < k =>
              /\ LookupOf(out[k]) \in early => LookupOf(out[j]) \in early
              /\ LookupOf(out[j]) \notin early =>
                    PlaceOf(LookupOf(out[j])) < PlaceOf(LookupOf(out[k]))

\* A batch has returned the results of two positions of one class and
\* symbol, the second served from the cache, in an order that is not the
\* request order.
C31_Witness ==
    /\ bpc = "returned"
    /\ {11, 12} \subseteq {out[k].id : k \in DOMAIN out}
    /\ \E j, k \in DOMAIN out :
          /\ j < k
          /\ LookupOf(out[j]) > LookupOf(out[k])
          /\ LookupOf(out[j]) \notin early
    /\ \A k \in DOMAIN out : out[k].price = MarketPrice(0)

\* --------------------------------------------------- database connection
\* The attempts of the call that got a connection failing the test.
DeadAttempts == {k \in DOMAIN conn_log : conn_log[k] = "dead"}

\* C32: _get_connection_with_retry makes at most 3 attempts; it returns only
\* a connection that passed the liveness test; every connection that failed
\* it has been handed back to the pool as closed; and after the last failed
\* attempt it raises RuntimeError and returns no connection.
C32_UsableConnectionOrRuntimeError ==
    /\ Len(conn_log) <= 3
    /\ put_closed = DeadAttempts
    /\ cpc = "returned" =>
          /\ conn_result.conn.alive
          /\ conn_log[Len(conn_log)] = "alive"
          /\ conn_result.conn.serial \notin put_closed
    /\ cpc = "raised" =>
          /\ conn_result = [error |-> "RuntimeError"]
          /\ Len(conn_log) = 3
          /\ \A k \in DOMAIN conn_log : conn_log[k] # "alive"
    /\ cpc \notin {"returned", "raised"} => conn_result = None

\* The third attempt returned a live connection after two that failed the
\* test and were handed back closed.
C32_Witness ==
    /\ cpc = "returned"
    /\ conn_log = <<"dead", "dead", "alive">>
    /\ put_closed = {1, 2}
    /\ conn_result.conn.serial = 3

\* --------------------------------------------------- day-change baseline
\* The snapshots of dates strictly before the date the dashboard is loaded.
BeforeToday == {r \in history : r.record_date < today_date}

\* The most recent of them.
LastBeforeToday ==
    CHOOSE r \in BeforeToday : \A x \in BeforeToday : x.record_date <= r.record_date

\* C33 as stated: the day-change of the dashboard is taken against the
\* snapshot of the most recent date strictly before today; with yesterday's
\* snapshot there and today's not yet written it is yesterday's; with no
\* snapshot before today (only today's, or none) the day-change is 0.
C33_BaselineIsLastBeforeToday ==
    (based.op = "get_dashboard_data" /\ based.data # None) =>
        LET st == based.data.stats["jp_stock"]
        IN  IF BeforeToday = {}
            THEN /\ st.day_change = 0
                 /\ based.data.total_day_change = 0
            ELSE /\ st.day_change =
                       st.total - LastBeforeToday.values["jp_stock"]
                 /\ based.data.total_day_change =
                       based.data.total_assets - LastBeforeToday.total_value

\* ------------------------------------------------ snapshot transactions
\* A step in which an attempt of record_asset_snapshot fails.
AttemptFails ==
    /\ txn.pc \in {TxSteps[i] : i \in DOMAIN TxSteps}
    /\ Len(txn'.errors) = Len(txn.errors) + 1

\* C34: a failing attempt of record_asset_snapshot leaves asset_history
\* exactly as it was, at whatever step it fails (also after its INSERT has
\* executed); the table changes only in the commit of an attempt that
\* returns, so a call that raises has written no row, whole or partial.
C34_FailedAttemptLeavesStore ==
    [][/\ AttemptFails => tx_table' = tx_table
       /\ tx_table' # tx_table => (txn.pc = "commit" /\ txn'.pc = "returned")]_vars

\* A call has raised after three attempts, one of which failed after its
\* INSERT had executed, over a table that already held a row.
C34_Witness ==
    /\ txn.pc = "raised"
    /\ Len(txn.errors) = max_retries
    /\ \E i \in 1..Len(txn.errors) : txn.errors[i] = "commit"
    /\ \E i \in 1..Len(txn.errors) : txn.errors[i] = "insert"
    /\ tx_table # {}

\* ------------------------------------------------------ snapshot totals
\* C35: in every row of asset_history, whatever recordings, price updates and
\* midnights came before, total_value is the sum of the seven <class>_value
\* columns and prev_total_value the sum of the seven prev_<class>_value columns.
C35_TotalsAreSums ==
    \A r \in asset_history :
        /\ r.total_value = SumOver(AssetTypes, r.values)
        /\ r.prev_total_value = SumOver(AssetTypes, r.prev_values)

\* A row written without a row of the day before (previous = current), and a
\* row of the next day whose previous columns were copied from a row of other,
\* non-zero values.
C35_Witness ==
    \E r \in asset_history, y \in asset_history :
        /\ y.user_id = r.user_id
        /\ y.record_date = r.record_date - 1
        /\ y.prev_values = y.values
        /\ y.total_value > 0
        /\ r.prev_values = y.values
        /\ r.values # y.values

NoQuoteStep ==
    /\ ctime' = ctime
    /\ ret'.op = "fetch_price"
    /\ ret'.at = ctime
    /\ ret'.result = None

\* The entry under key is there and has reached its expiry instant.
ExpiredEntry(key) ==
    /\ key \in DOMAIN cache
    /\ ~Fresh(ctime, DictGet(expiry, key, 0))

\* C37: a fetch_price call that returns no quote (adapter error, unsupported
\* symbol, unknown class, cash, insurance) leaves every cache entry and expiry
\* instant as it was, except that the entry under the call's own key is
\* removed if it had expired; it adds or rewrites no entry.
C37_NoQuoteLeavesCache ==
    [][NoQuoteStep =>
         LET key == CacheKey(ret'.asset.asset_type, ret'.asset.symbol)
         IN  /\ \A k \in (DOMAIN cache \cup DOMAIN cache') \ {key} :
                   /\ k \in DOMAIN cache /\ k \in DOMAIN cache'
                   /\ cache'[k] = cache[k]
                   /\ DictGet(expiry', k, 0) = DictGet(expiry, k, 0)
             /\ \/ cache' = cache /\ expiry' = expiry
                \/ /\ ExpiredEntry(key)
                   /\ key \notin DOMAIN cache'
                   /\ key \notin DOMAIN expiry'
             /\ last_set' = last_set]_vars

\* A lookup that sent its request and got no quote has found its own entry
\* expired and removed it, while an entry under another key is still there.
C37_Witness ==
    /\ ret.op = "fetch_price"
    /\ ret.result = None
    /\ ret.requests # {}
    /\ ret.at = ctime
    /\ LET key == CacheKey(ret.asset.asset_type, ret.asset.symbol)
       IN  /\ key \in DOMAIN last_set
           /\ key \notin DOMAIN cache
           /\ \E k \in DOMAIN cache : k # key

\* ------------------------------------------------------------ daily job
\* The job made this call for this user.
Ran(user_id, call) ==
    \E n \in 1..Len(job.calls) :
        job.calls[n].user_id = user_id /\ job.calls[n].call = call

\* A call the job made for this user failed.
FailedFor(user_id) ==
    \E n \in 1..Len(job.calls) :
        job.calls[n].user_id = user_id /\ ~job.calls[n].ok

\* C38: a daily job that has selected its users and in which the price update
\* or the snapshot of exactly one user failed has, when it ends, run the
\* price update and the snapshot for every user after that one; a job ends
\* by returning, never by raising, and every job that begins ends.
C38_JobGoesOnAfterFailure ==
    /\ [](job.pc = "done" =>
            /\ job.ended \in {"returned", "critical error logged"}
            /\ \A k \in 1..Len(JobUsers) :
                  (/\ FailedFor(JobUsers[k])
                   /\ \A m \in 1..Len(JobUsers) : FailedFor(JobUsers[m]) => m = k)
                  => \A m \in (k + 1)..Len(JobUsers) :
                        /\ Ran(JobUsers[m], "update_user_prices")
                        /\ Ran(JobUsers[m], "record_asset_snapshot"))
    /\ (job.pc \in {"update", "snapshot"}) ~> (job.pc = "done")

\* run_daily_batch has ended after the snapshot of the first user raised and
\* the two other users were updated and recorded.
C38_Witness ==
    /\ job.pc = "done"
    /\ job.kind = "run_daily_batch"
    /\ job.ended = "returned"
    /\ \E n \in 1..Len(job.calls) :
          /\ job.calls[n].user_id = JobUsers[1]
          /\ job.calls[n].call = "record_asset_snapshot"
          /\ ~job.calls[n].ok
    /\ \A m \in 2..Len(JobUsers) :
          /\ ~FailedFor(JobUsers[m])
          /\ Ran(JobUsers[m], "record_asset_snapshot")

\* ------------------------------------------------------ keep_alive loop
\* C39: the keep_alive loop of routes/health starts run_daily_batch only in an
\* iteration whose clock reads 23:58, and at most once on each calendar date
\* (JST): no two starts have the same date.
C39_OnceADateAtTheMinute ==
    /\ \A n \in 1..Len(batches) : Minute(batches[n].slot) = 58
    /\ \A m, n \in 1..Len(batches) : batches[m].date = batches[n].date => m = n

\* The batch has run on a date and a later iteration of the same date has
\* read 23:58 again and gone to sleep without running it; the batch has also
\* run on an earlier date.
C39_Witness ==
    /\ Len(batches) >= 2
    /\ ka.pc = "sleep"
    /\ Minute(now_jst.slot) = 58
    /\ ka.last_run_date = [date |-> now_jst.date]
    /\ batches[Len(batches)].date = now_jst.date
    /\ batches[Len(batches)].slot < now_jst.slot

\* ----------------------------------------------------- KeepAliveManager
\* C40 as stated: after any start_thread and stop calls at most one thread
\* that has not been stopped is in the loop of keep_alive (start_thread while
\* running starts no second one), and a thread that was in the loop when
\* stop() was called never again passes the test of the loop to send a ping.
C40_OnePingingThread ==
    /\ Cardinality({t \in InLoop : ka_stopped[t] = None}) <= 1
    /\ \A t \in 1..KeepAliveThreads :
          ka_stopped[t] # None => ka_threads[t].pings = ka_stopped[t].pings

====
